---- MODULE Spec2Model ----
(***************************************************************************)
(* A model of the signal-processing cores of the grimoire plugins:         *)
(*   cantrip_delay      dsp/delay_line.rs   DelayLine                      *)
(*   cantrip_filter     dsp/biquad.rs       Biquad (update, process)       *)
(*   cantrip_filter     parameters.rs       FilterType::compute_coefficients*)
(*   cantrip_compressor dsp/envelope.rs     EnvelopeFollower               *)
(*                                                                         *)
(* Numbers.  The code computes in f32.  The model computes in integers:   *)
(*   - times are whole milliseconds and sample rates whole Hz, so that     *)
(*     delay_ms * sample_rate / 1000.0 is the exact rational it is in f32  *)
(*     for such operands, and floor / ceil / `as usize` act on it as the   *)
(*     code's do (`as usize` saturates a negative value to 0);             *)
(*   - delay-line samples are whole multiples of a sample quantum and the  *)
(*     feedback is a whole percentage (lib.rs divides the parameter by     *)
(*     100); a product is rounded toward zero to a whole quantum, which    *)
(*     stands for f32's rounding of the product;                           *)
(*   - filter coefficients are fixed point with One for 1.0, and the       *)
(*     transcendental functions are tables of the true values at that      *)
(*     resolution.  What f32 underflows to 0.0 is 0 here; a value that is  *)
(*     tiny but not 0.0 in f32 may also be 0 here, the resolution being    *)
(*     coarser than f32's;                                                 *)
(*   - an f32 that is inf or NaN is a flag beside the numbers (finite, ok).*)
(* The stages are siblings that share no state; `unit` names the stage a   *)
(* behaviour exercises.                                                    *)
(***************************************************************************)
EXTENDS Integers, Sequences, FiniteSets, TLC

VARIABLES
    unit,        \* the stage this behaviour exercises
    dl,          \* DelayLine: [buffer, write_pos, sample_rate]
    dl_max_ms,   \* the max_delay_ms the line was last sized with
    dl_io,       \* what the last process call did: read/write position, panics
    dl_hist,     \* the process calls since the last new / reset / set_sample_rate
    dl_fresh,    \* a line built by DelayLine::new at the last reset, fed the same calls
    dl_origin,   \* the last new / reset / set_sample_rate and its arguments
    dl_calls,    \* process calls made so far
    bq,          \* Biquad: coefficients and history
    bq_up,       \* the last update call: its arguments, whether it panicked
    bq_io,       \* the last process call: the filter before it, input, output
    bq_hist,     \* the process calls since the last new / reset
    bq_fresh,    \* a Biquad::new() given the same update, fed the same calls
    bq_origin,   \* the last new / reset
    bq_calls,    \* process calls made so far
    coef,        \* the last compute_coefficients call and what it derived
    plug,        \* the plugin's own Biquad::update (lib.rs) on the same arguments
    env,         \* EnvelopeFollower: [envelope, attack_coeff, release_coeff]
    env_times,   \* the last set_times call
    env_hist,    \* the process calls since the last default / reset
    env_fresh,   \* a default follower given the same set_times, fed the same calls
    env_origin,  \* the last default / reset
    env_calls,   \* process calls made so far
    comp,        \* Compressor: [envelope], an EnvelopeFollower
    comp_io,     \* the last process_stereo call: arguments, levels, gain
    comp_run,    \* the process_stereo calls since the last new / reset
    dc,          \* a Biquad at eight decimal places, under steady input
    cf,          \* CantripFilter: [filters, sample_rate] and its last process call
    curve        \* compute_gain_reduction over a range of levels, for one setting

dl_vars == <<dl, dl_max_ms, dl_io, dl_hist, dl_fresh, dl_origin, dl_calls>>

bq_vars == <<bq, bq_up, bq_io, bq_hist, bq_fresh, bq_origin, bq_calls>>

coef_vars == <<coef, plug>>

env_vars == <<env, env_times, env_hist, env_fresh, env_origin, env_calls>>

comp_vars == <<comp, comp_io, comp_run>>

-----------------------------------------------------------------------------
(* Bounds of the exploration *)

MaxCalls == 3

\* <<max_delay_ms, sample_rate>> a line is sized with: a negative maximum (one
\* cell), 1.5 samples (rounded up to 2), and a whole number of samples
Configs == {<<-1, 1000>>, <<1, 1500>>, <<2, 1000>>}
DelayMsSet == {-1, 0, 1, 2}
Feedbacks == {0, 50}
Inputs == {0, 100}

-----------------------------------------------------------------------------
(* f32 helpers on the model's numbers *)

Abs(x) == IF x < 0 THEN -x ELSE x

Min(a, b) == IF a <= b THEN a ELSE b

Max(a, b) == IF a >= b THEN a ELSE b

\* a / b rounded toward zero (b > 0)
TruncDiv(a, b) == IF a >= 0 THEN a \div b ELSE -((-a) \div b)

\* (a / b).ceil() (b > 0)
CeilDiv(a, b) == -((-a) \div b)

\* `x as usize` of a float: negative values saturate to 0
AsUsize(x) == IF x < 0 THEN 0 ELSE x

MsPerSecond == 1000

PercentDen == 100

\* delayed * feedback, feedback a percentage
FbMul(x, fb) == TruncDiv(x * fb, PercentDen)

Zeros(n) == [i \in 1..n |-> 0]

-----------------------------------------------------------------------------
(* DelayLine, dsp/delay_line.rs *)

\* mutant: the spare cell (+ 1) is forgotten
MaxSamples_NoSpareCell(max_delay_ms, sample_rate) ==
    AsUsize(CeilDiv(max_delay_ms * sample_rate, MsPerSecond))

\* the buffer length both new and set_sample_rate compute
MaxSamples(max_delay_ms, sample_rate) ==
    AsUsize(CeilDiv(max_delay_ms * sample_rate, MsPerSecond)) + 1

DL_new(max_delay_ms, sample_rate) ==
    [buffer |-> Zeros(MaxSamples(max_delay_ms, sample_rate)),
     write_pos |-> 0,
     sample_rate |-> sample_rate]

\* mutant: the cursor is rewound, the buffer is not cleared
DL_reset_NoFill(s) == [s EXCEPT !.write_pos = 0]

DL_reset(s) ==
    [s EXCEPT !.buffer = Zeros(Len(s.buffer)), !.write_pos = 0]

\* Vec::resize(n, 0.0): truncate, or extend with zeros
Resize(buf, n) == [i \in 1..n |-> IF i <= Len(buf) THEN buf[i] ELSE 0]

\* mutant: the line is resized and not reset
DL_set_sample_rate_NoReset(s, sample_rate, max_delay_ms) ==
    [s EXCEPT !.sample_rate = sample_rate,
              !.buffer = Resize(s.buffer, MaxSamples(max_delay_ms, sample_rate))]

DL_set_sample_rate(s, sample_rate, max_delay_ms) ==
    DL_reset([s EXCEPT !.sample_rate = sample_rate,
                       !.buffer = Resize(s.buffer, MaxSamples(max_delay_ms, sample_rate))])

\* (delay_ms * self.sample_rate / 1000.0) as usize
DelaySamplesRaw(s, delay_ms) ==
    AsUsize(TruncDiv(delay_ms * s.sample_rate, MsPerSecond))

\* mutant: the delay is not clamped to the buffer
DelaySamples_NoClamp(s, delay_ms) == DelaySamplesRaw(s, delay_ms)

\* .min(self.buffer.len() - 1)
DelaySamples(s, delay_ms) ==
    Min(DelaySamplesRaw(s, delay_ms), Len(s.buffer) - 1)

ReadPos(s, delay_samples) ==
    IF s.write_pos >= delay_samples
    THEN s.write_pos - delay_samples
    ELSE Len(s.buffer) - (delay_samples - s.write_pos)

\* usize subtraction below zero, or an index outside the buffer
DL_panics(s, delay_ms) ==
    LET ds == DelaySamples(s, delay_ms)
        rp == ReadPos(s, ds)
    IN  \/ Len(s.buffer) < 1
        \/ ds < 0
        \/ (s.write_pos < ds /\ Len(s.buffer) < ds - s.write_pos)
        \/ rp < 0 \/ rp >= Len(s.buffer)
        \/ s.write_pos < 0 \/ s.write_pos >= Len(s.buffer)

\* the value process returns: the cell at read_pos, before the write
DL_delayed(s, delay_ms) == s.buffer[ReadPos(s, DelaySamples(s, delay_ms)) + 1]

\* mutant: the delayed sample is not fed back
DL_written_NoFeedback(input, delayed, feedback) == input

\* the value process writes at write_pos
DL_written(input, delayed, feedback) == input + FbMul(delayed, feedback)

AdvancePos(s) ==
    IF s.write_pos + 1 >= Len(s.buffer) THEN 0 ELSE s.write_pos + 1

DL_process(s, input, delay_ms, feedback) ==
    [s EXCEPT !.buffer[s.write_pos + 1] =
                  DL_written(input, DL_delayed(s, delay_ms), feedback),
              !.write_pos = AdvancePos(s)]

-----------------------------------------------------------------------------
(* The delay line as a state machine *)

NoIo == [read_pos |-> 0, write_pos |-> 0, delay_samples |-> 0,
         panicked |-> FALSE, out |-> 0]

\* the line holds something a reset has to clear
Dirty(s) == s.write_pos # 0 \/ \E i \in 1..Len(s.buffer) : s.buffer[i] # 0

DL_InitWith(c) ==
    LET m == c[1] sr == c[2] IN
        /\ dl = DL_new(m, sr)
        /\ dl_max_ms = m
        /\ dl_io = NoIo
        /\ dl_hist = <<>>
        /\ dl_fresh = DL_new(m, sr)
        /\ dl_origin = [op |-> "new", sample_rate |-> sr, max_delay_ms |-> m,
                        dirty |-> FALSE]
        /\ dl_calls = 0

DL_Init == \E c \in Configs : DL_InitWith(c)

DL_Reset ==
    /\ unit = "delay"
    /\ dl' = DL_reset(dl)
    /\ dl_fresh' = DL_new(dl_max_ms, dl.sample_rate)
    /\ dl_hist' = <<>>
    /\ dl_io' = NoIo
    /\ dl_origin' = [op |-> "reset", sample_rate |-> dl.sample_rate,
                     max_delay_ms |-> dl_max_ms, dirty |-> Dirty(dl)]
    /\ UNCHANGED <<unit, dl_max_ms, dl_calls, bq_vars, coef_vars, env_vars, comp_vars, dc, cf, curve>>

DL_SetSampleRate ==
    /\ unit = "delay"
    /\ \E c \in Configs : LET m == c[1] sr == c[2] IN
        /\ dl' = DL_set_sample_rate(dl, sr, m)
        /\ dl_max_ms' = m
        /\ dl_fresh' = DL_new(m, sr)
        /\ dl_origin' = [op |-> "set_sample_rate", sample_rate |-> sr,
                         max_delay_ms |-> m, dirty |-> Dirty(dl)]
    /\ dl_hist' = <<>>
    /\ dl_io' = NoIo
    /\ UNCHANGED <<unit, dl_calls, bq_vars, coef_vars, env_vars, comp_vars, dc, cf, curve>>

DL_Process ==
    /\ unit = "delay"
    /\ dl_calls < MaxCalls
    /\ ~dl_io.panicked
    /\ \E x \in Inputs, ms \in DelayMsSet, fb \in Feedbacks :
        IF DL_panics(dl, ms)
        THEN /\ dl_io' = [dl_io EXCEPT !.panicked = TRUE]
             /\ UNCHANGED <<dl, dl_hist, dl_fresh>>
        ELSE /\ dl' = DL_process(dl, x, ms, fb)
             /\ dl_io' = [read_pos |-> ReadPos(dl, DelaySamples(dl, ms)),
                          write_pos |-> dl.write_pos,
                          delay_samples |-> DelaySamples(dl, ms),
                          panicked |-> FALSE,
                          out |-> DL_delayed(dl, ms)]
             /\ dl_hist' = Append(dl_hist,
                                  [input |-> x, delay_ms |-> ms, feedback |-> fb,
                                   out |-> DL_delayed(dl, ms),
                                   fresh_out |-> DL_delayed(dl_fresh, ms)])
             /\ dl_fresh' = DL_process(dl_fresh, x, ms, fb)
    /\ dl_calls' = dl_calls + 1
    /\ UNCHANGED <<unit, dl_max_ms, dl_origin, bq_vars, coef_vars, env_vars, comp_vars, dc, cf, curve>>

-----------------------------------------------------------------------------
(* Fixed-point f32 for the filter: One stands for 1.0.  Frequencies and    *)
(* sample rates are whole Hz, gains whole dB.  cos, sin, tan, 10^x and     *)
(* sqrt are the true functions rounded to the model's resolution, as f32's *)
(* are rounded to f32's; the trigonometric tables hold the angles the      *)
(* explored frequencies give.                                              *)

One == 1000

\* a / b rounded toward zero, b # 0
Quot(a, b) ==
    IF b > 0 THEN TruncDiv(a, b) ELSE -TruncDiv(a, -b)

FMul(a, b) == TruncDiv(a * b, One)

FDiv(a, b) == Quot(a * One, b)

\* std::f32::consts::PI
PI == 3142

\* std::f32::consts::FRAC_1_SQRT_2
FRAC_1_SQRT_2 == 707

Cos(w) ==
    CASE w = 0 -> 1000 [] w = 2 -> 1000 [] w = 523 -> 866 [] w = 1571 -> 0
      [] w = 2034 -> -447 [] w = 3135 -> -1000 [] w = 3927 -> -707
      [] w >= 2 * PI /\ w % (2 * PI) = 0 -> 1000

Sin(w) ==
    CASE w = 0 -> 0 [] w = 2 -> 2 [] w = 523 -> 499 [] w = 1571 -> 1000
      [] w = 2034 -> 895 [] w = 3135 -> 7 [] w = 3927 -> -707
      [] w >= 2 * PI /\ w % (2 * PI) = 0 -> 0

Tan(w) ==
    CASE w = 0 -> 0 [] w = 2 -> 2 [] w = 523 -> 577 [] w = 1571 -> -4909826
      [] w = 2034 -> -2002 [] w = 3135 -> -7

\* 10.0f32.powf(gain_db / 40.0); 10^-50 underflows to 0.0 in f32
Pow10Db40(g) ==
    CASE g = -2000 -> 0 [] g = -24 -> 251 [] g = 0 -> 1000 [] g = 3 -> 1189
      [] g = 12 -> 1995

\* 10.0f32.powf(gain_db / 20.0); 10^-100 underflows to 0.0 in f32
Pow10Db20(g) ==
    CASE g = -2000 -> 0 [] g = -24 -> 63 [] g = 0 -> 1000 [] g = 3 -> 1413
      [] g = 12 -> 3981

RECURSIVE SqrtSearch(_, _, _)
SqrtSearch(n, lo, hi) ==
    IF lo >= hi THEN lo
    ELSE LET mid == (lo + hi + 1) \div 2
         IN  IF mid * mid <= n THEN SqrtSearch(n, mid, hi)
             ELSE SqrtSearch(n, lo, mid - 1)

\* x.sqrt(), x >= 0
Sqrt(x) == SqrtSearch(x * One, 0, 40000)

-----------------------------------------------------------------------------
(* Biquad::update, dsp/biquad.rs: the raw coefficients of each filter type *)

FilterTypes ==
    {"LowPass", "HighPass", "BandPass", "Notch", "AllPass", "LowPass6dB",
     "HighPass6dB", "Peaking", "LowShelf", "HighShelf", "Tilt",
     "LinkwitzRileyLP", "LinkwitzRileyHP", "ButterworthLP", "ButterworthHP",
     "BandPass0dB", "Warmth", "Brightness", "Presence", "Air", "SubBass",
     "Vocal", "DCBlock", "Unity"}

\* f32::clamp(min, max) panics when min > max
ClampPanics(sample_rate) == FMul(sample_rate, 499) < 1

\* freq.clamp(1.0, sample_rate * 0.499)
ClampFreq(freq, sample_rate) == Max(1, Min(freq, FMul(sample_rate, 499)))

\* 2.0 * PI * freq / sample_rate
W0(freq, sample_rate) == Quot(2 * PI * freq, sample_rate)

\* sin_w0 / (2.0 * q)
Alpha(sin_w0, q) == FDiv(sin_w0, 2 * q)

Raw(b0, b1, b2, a0, a1, a2, dbz) ==
    [b0 |-> b0, b1 |-> b1, b2 |-> b2, a0 |-> a0, a1 |-> a1, a2 |-> a2,
     dbz |-> dbz]

RawLowPassWith(cos_w0, alpha) ==
    Raw((One - cos_w0) \div 2, One - cos_w0, (One - cos_w0) \div 2,
        One + alpha, -2 * cos_w0, One - alpha, FALSE)

\* a high-pass whose middle numerator term is halved
RawHighPassWith_HalfMiddle(cos_w0, alpha) ==
    Raw((One + cos_w0) \div 2, -((One + cos_w0) \div 2),
        (One + cos_w0) \div 2, One + alpha, -2 * cos_w0, One - alpha, FALSE)

RawHighPassWith(cos_w0, alpha) ==
    Raw((One + cos_w0) \div 2, -(One + cos_w0), (One + cos_w0) \div 2,
        One + alpha, -2 * cos_w0, One - alpha, FALSE)

RawBandPass(cos_w0, alpha) ==
    Raw(alpha, 0, -alpha, One + alpha, -2 * cos_w0, One - alpha, FALSE)

RawNotch(cos_w0, alpha) ==
    Raw(One, -2 * cos_w0, One, One + alpha, -2 * cos_w0, One - alpha, FALSE)

RawAllPass(cos_w0, alpha) ==
    Raw(One - alpha, -2 * cos_w0, One + alpha,
        One + alpha, -2 * cos_w0, One - alpha, FALSE)

\* a / b to three places by long division, for operands a * One would
\* overflow on
FDivLong(a, b) ==
    LET x == Abs(a)
        y == Abs(b)
        r1 == (x % y) * 10
        r2 == (r1 % y) * 10
        r3 == (r2 % y) * 10
        p == (x \div y) * One + (r1 \div y) * 100 + (r2 \div y) * 10
                 + r3 \div y
    IN  IF (a < 0) = (b < 0) THEN p ELSE -p

\* x * norm with norm = 1.0 / (1.0 + k): an f32 reciprocal keeps its
\* relative precision however small it is, so the product is x / (1 + k) to
\* three places
TimesNorm(x, k) == FDivLong(x, One + k)

\* k = w0.tan() / 2.0, norm = 1.0 / (1.0 + k)
RawLowPass6dB(w0) ==
    LET k == TruncDiv(Tan(w0), 2)
        dbz == One + k = 0
        b0 == IF dbz THEN 0 ELSE TimesNorm(k, k)
        a1 == IF dbz THEN 0 ELSE TimesNorm(k - One, k)
    IN  Raw(b0, b0, 0, One, a1, 0, dbz)

RawHighPass6dB(w0) ==
    LET k == TruncDiv(Tan(w0), 2)
        dbz == One + k = 0
        norm == IF dbz THEN 0 ELSE TimesNorm(One, k)
        a1 == IF dbz THEN 0 ELSE TimesNorm(k - One, k)
    IN  Raw(norm, -norm, 0, One, a1, 0, dbz)

\* alpha / a divides by a
RawPeakingWith(cos_w0, alpha, a) ==
    LET dbz == a = 0
        alpha_over_a == IF dbz THEN 0 ELSE FDiv(alpha, a)
    IN  Raw(One + FMul(alpha, a), -2 * cos_w0, One - FMul(alpha, a),
            One + alpha_over_a, -2 * cos_w0, One - alpha_over_a, dbz)

\* a low shelf whose b1 lacks the factor 2
RawLowShelfWith_HalfMiddle(cos_w0, alpha, a) ==
    LET two_sqrt_a_alpha == FMul(2 * Sqrt(a), alpha)
    IN  Raw(FMul(a, (a + One) - FMul(a - One, cos_w0) + two_sqrt_a_alpha),
            FMul(a, (a - One) - FMul(a + One, cos_w0)),
            FMul(a, (a + One) - FMul(a - One, cos_w0) - two_sqrt_a_alpha),
            (a + One) + FMul(a - One, cos_w0) + two_sqrt_a_alpha,
            -2 * ((a - One) + FMul(a + One, cos_w0)),
            (a + One) + FMul(a - One, cos_w0) - two_sqrt_a_alpha,
            FALSE)

RawLowShelfWith(cos_w0, alpha, a) ==
    LET two_sqrt_a_alpha == FMul(2 * Sqrt(a), alpha)
    IN  Raw(FMul(a, (a + One) - FMul(a - One, cos_w0) + two_sqrt_a_alpha),
            FMul(2 * a, (a - One) - FMul(a + One, cos_w0)),
            FMul(a, (a + One) - FMul(a - One, cos_w0) - two_sqrt_a_alpha),
            (a + One) + FMul(a - One, cos_w0) + two_sqrt_a_alpha,
            -2 * ((a - One) + FMul(a + One, cos_w0)),
            (a + One) + FMul(a - One, cos_w0) - two_sqrt_a_alpha,
            FALSE)

RawHighShelfWith(cos_w0, alpha, a) ==
    LET two_sqrt_a_alpha == FMul(2 * Sqrt(a), alpha)
    IN  Raw(FMul(a, (a + One) + FMul(a - One, cos_w0) + two_sqrt_a_alpha),
            FMul(-2 * a, (a - One) + FMul(a + One, cos_w0)),
            FMul(a, (a + One) + FMul(a - One, cos_w0) - two_sqrt_a_alpha),
            (a + One) - FMul(a - One, cos_w0) + two_sqrt_a_alpha,
            2 * ((a - One) - FMul(a + One, cos_w0)),
            (a + One) - FMul(a - One, cos_w0) - two_sqrt_a_alpha,
            FALSE)

\* tilt_a = 10^(gain_db / 20), sqrt_a = tilt_a.sqrt(); alpha / sqrt_a divides
RawTilt(cos_w0, alpha, gain_db) ==
    LET tilt_a == Pow10Db20(gain_db)
        sqrt_a == Sqrt(tilt_a)
        dbz == sqrt_a = 0
        alpha_over == IF dbz THEN 0 ELSE FDiv(alpha, sqrt_a)
    IN  Raw(FMul(sqrt_a, sqrt_a + alpha_over),
            FMul(-2 * sqrt_a, cos_w0),
            FMul(sqrt_a, sqrt_a - alpha_over),
            sqrt_a + FMul(alpha, sqrt_a),
            FMul(-2 * sqrt_a, cos_w0),
            sqrt_a - FMul(alpha, sqrt_a),
            dbz)

\* gain_db.max(3.0)
CharacterGain(gain_db) == Max(gain_db, 3)

\* Fixed at ~20Hz regardless of freq parameter
RawDCBlock(sample_rate) ==
    LET dc_w0 == Quot(2 * PI * 20, sample_rate)
        dc_cos == Cos(dc_w0)
        dc_alpha == FDiv(Sin(dc_w0), 2 * 707)
    IN  RawHighPassWith(dc_cos, dc_alpha)

\* a Unity that lets the previous input through as well
RawUnity_Echo == Raw(One, One, 0, One, 0, 0, FALSE)

RawUnity == Raw(One, 0, 0, One, 0, 0, FALSE)

\* the match over filter_type; freq is already clamped
RawCoefficients(filter_type, freq, q, gain_db, sample_rate) ==
    LET w0 == W0(freq, sample_rate)
        cos_w0 == Cos(w0)
        sin_w0 == Sin(w0)
        alpha == Alpha(sin_w0, q)
        a == Pow10Db40(gain_db)
        ca == Pow10Db40(CharacterGain(gain_db))
    IN  CASE filter_type = "LowPass" -> RawLowPassWith(cos_w0, alpha)
          [] filter_type = "HighPass" -> RawHighPassWith(cos_w0, alpha)
          [] filter_type = "BandPass" -> RawBandPass(cos_w0, alpha)
          [] filter_type = "Notch" -> RawNotch(cos_w0, alpha)
          [] filter_type = "AllPass" -> RawAllPass(cos_w0, alpha)
          [] filter_type = "LowPass6dB" -> RawLowPass6dB(w0)
          [] filter_type = "HighPass6dB" -> RawHighPass6dB(w0)
          [] filter_type = "Peaking" -> RawPeakingWith(cos_w0, alpha, a)
          [] filter_type = "LowShelf" -> RawLowShelfWith(cos_w0, alpha, a)
          [] filter_type = "HighShelf" -> RawHighShelfWith(cos_w0, alpha, a)
          [] filter_type = "Tilt" -> RawTilt(cos_w0, alpha, gain_db)
          [] filter_type = "LinkwitzRileyLP" ->
                 RawLowPassWith(cos_w0, Alpha(sin_w0, 500))
          [] filter_type = "LinkwitzRileyHP" ->
                 RawHighPassWith(cos_w0, Alpha(sin_w0, 500))
          [] filter_type = "ButterworthLP" ->
                 RawLowPassWith(cos_w0, Alpha(sin_w0, FRAC_1_SQRT_2))
          [] filter_type = "ButterworthHP" ->
                 RawHighPassWith(cos_w0, Alpha(sin_w0, FRAC_1_SQRT_2))
          [] filter_type = "BandPass0dB" ->
                 Raw(FMul(q, alpha), 0, FMul(-q, alpha),
                     One + alpha, -2 * cos_w0, One - alpha, FALSE)
          [] filter_type = "Warmth" ->
                 RawLowShelfWith(cos_w0, Alpha(sin_w0, 600), ca)
          [] filter_type = "Brightness" ->
                 RawHighShelfWith(cos_w0, Alpha(sin_w0, 700), ca)
          [] filter_type = "Presence" ->
                 RawPeakingWith(cos_w0, Alpha(sin_w0, 1500), ca)
          [] filter_type = "Air" ->
                 RawHighShelfWith(cos_w0, Alpha(sin_w0, 500), ca)
          [] filter_type = "SubBass" ->
                 RawLowShelfWith(cos_w0, Alpha(sin_w0, 800), ca)
          [] filter_type = "Vocal" ->
                 RawPeakingWith(cos_w0, Alpha(sin_w0, 2000), ca)
          [] filter_type = "DCBlock" -> RawDCBlock(sample_rate)
          [] filter_type = "Unity" -> RawUnity

\* inv_a0 = 1.0 / a0; b0 * inv_a0, ...  A division by zero on the way leaves
\* inf or NaN in the coefficients: finite is FALSE and the numbers are void.
Normalize(raw) ==
    IF raw.dbz \/ raw.a0 = 0
    THEN [b0 |-> 0, b1 |-> 0, b2 |-> 0, a1 |-> 0, a2 |-> 0, finite |-> FALSE]
    ELSE LET inv_a0 == FDiv(One, raw.a0)
         IN  [b0 |-> FMul(raw.b0, inv_a0), b1 |-> FMul(raw.b1, inv_a0),
              b2 |-> FMul(raw.b2, inv_a0), a1 |-> FMul(raw.a1, inv_a0),
              a2 |-> FMul(raw.a2, inv_a0), finite |-> TRUE]

\* FilterType::compute_coefficients and the body of Biquad::update
Coefficients(filter_type, freq, q, gain_db, sample_rate) ==
    Normalize(RawCoefficients(filter_type, ClampFreq(freq, sample_rate), q,
                              gain_db, sample_rate))

\* parameters.rs and coefficients.rs: the derivation FilterType carries.
\* BiquadCoefficients::from_raw: inv_a0 = 1.0 / a0, each coefficient times it
PR_from_raw(raw) ==
    IF raw.dbz \/ raw.a0 = 0
    THEN [b0 |-> 0, b1 |-> 0, b2 |-> 0, a1 |-> 0, a2 |-> 0, finite |-> FALSE]
    ELSE LET inv_a0 == FDiv(One, raw.a0)
         IN  [b0 |-> FMul(raw.b0, inv_a0), b1 |-> FMul(raw.b1, inv_a0),
              b2 |-> FMul(raw.b2, inv_a0), a1 |-> FMul(raw.a1, inv_a0),
              a2 |-> FMul(raw.a2, inv_a0), finite |-> TRUE]

\* FilterContext::new, past its clamp
PR_context(freq, q, gain_db, sample_rate) ==
    LET clamped == Max(1, Min(freq, FMul(sample_rate, 499)))
        w0 == Quot(2 * PI * clamped, sample_rate)
    IN  [w0 |-> w0, cos_w0 |-> Cos(w0), sin_w0 |-> Sin(w0),
         alpha |-> FDiv(Sin(w0), 2 * q), a |-> Pow10Db40(gain_db)]

\* lowpass and lowpass_with_q: b1 = 1 - cos_w0, b0 = b1 / 2
PR_lowpass(ctx, alpha) ==
    LET b1 == One - ctx.cos_w0
        b0 == TruncDiv(b1, 2)
    IN  PR_from_raw(Raw(b0, b1, b0, One + alpha, -2 * ctx.cos_w0,
                        One - alpha, FALSE))

\* highpass and highpass_with_q
PR_highpass(ctx, alpha) ==
    LET b1 == -(One + ctx.cos_w0)
        b0 == TruncDiv(One + ctx.cos_w0, 2)
    IN  PR_from_raw(Raw(b0, b1, b0, One + alpha, -2 * ctx.cos_w0,
                        One - alpha, FALSE))

\* lowpass_6db (low TRUE) and highpass_6db
PR_one_pole(ctx, low) ==
    LET k == TruncDiv(Tan(ctx.w0), 2)
        dbz == One + k = 0
        norm == IF dbz THEN 0 ELSE TimesNorm(One, k)
        b0 == IF dbz THEN 0 ELSE TimesNorm(k, k)
        a1 == IF dbz THEN 0 ELSE TimesNorm(k - One, k)
    IN  IF low THEN PR_from_raw(Raw(b0, b0, 0, One, a1, 0, dbz))
        ELSE PR_from_raw(Raw(norm, -norm, 0, One, a1, 0, dbz))

\* peaking and peaking_character
PR_peaking(ctx, alpha, a) ==
    LET dbz == a = 0
        over == IF dbz THEN 0 ELSE FDiv(alpha, a)
    IN  PR_from_raw(Raw(One + FMul(alpha, a), -2 * ctx.cos_w0,
                        One - FMul(alpha, a), One + over, -2 * ctx.cos_w0,
                        One - over, dbz))

\* shelf_coefficients and shelf_character: ShelfType::Low (low TRUE) or High
PR_shelf(ctx, low, alpha, a) ==
    LET two_sqrt_a_alpha == FMul(2 * Sqrt(a), alpha)
        up == (a + One) + FMul(a - One, ctx.cos_w0)
        down == (a + One) - FMul(a - One, ctx.cos_w0)
    IN  IF low
        THEN PR_from_raw(Raw(
                 FMul(a, down + two_sqrt_a_alpha),
                 FMul(2 * a, (a - One) - FMul(a + One, ctx.cos_w0)),
                 FMul(a, down - two_sqrt_a_alpha),
                 up + two_sqrt_a_alpha,
                 -2 * ((a - One) + FMul(a + One, ctx.cos_w0)),
                 up - two_sqrt_a_alpha, FALSE))
        ELSE PR_from_raw(Raw(
                 FMul(a, up + two_sqrt_a_alpha),
                 FMul(-2 * a, (a - One) + FMul(a + One, ctx.cos_w0)),
                 FMul(a, up - two_sqrt_a_alpha),
                 down + two_sqrt_a_alpha,
                 2 * ((a - One) - FMul(a + One, ctx.cos_w0)),
                 down - two_sqrt_a_alpha, FALSE))

PR_tilt(ctx, gain_db) ==
    LET sqrt_a == Sqrt(Pow10Db20(gain_db))
        dbz == sqrt_a = 0
        over == IF dbz THEN 0 ELSE FDiv(ctx.alpha, sqrt_a)
    IN  PR_from_raw(Raw(FMul(sqrt_a, sqrt_a + over),
                        FMul(-2 * sqrt_a, ctx.cos_w0),
                        FMul(sqrt_a, sqrt_a - over),
                        sqrt_a + FMul(ctx.alpha, sqrt_a),
                        FMul(-2 * sqrt_a, ctx.cos_w0),
                        sqrt_a - FMul(ctx.alpha, sqrt_a), dbz))

PR_dc_block(sample_rate) ==
    LET dc_w0 == Quot(2 * PI * 20, sample_rate)
        dc_cos == Cos(dc_w0)
        dc_alpha == FDiv(Sin(dc_w0), 2 * 707)
        b0 == TruncDiv(One + dc_cos, 2)
    IN  PR_from_raw(Raw(b0, -(One + dc_cos), b0, One + dc_alpha,
                        -2 * dc_cos, One - dc_alpha, FALSE))

\* FilterType::compute_coefficients, when FilterContext::new does not panic
PR_compute_coefficients(filter_type, freq, q, gain_db, sample_rate) ==
    LET ctx == PR_context(freq, q, gain_db, sample_rate)
        with_q(x) == FDiv(ctx.sin_w0, 2 * x)
        ca == Pow10Db40(Max(gain_db, 3))
    IN  CASE filter_type = "LowPass" -> PR_lowpass(ctx, ctx.alpha)
          [] filter_type = "HighPass" -> PR_highpass(ctx, ctx.alpha)
          [] filter_type = "BandPass" ->
                 PR_from_raw(Raw(ctx.alpha, 0, -ctx.alpha, One + ctx.alpha,
                                 -2 * ctx.cos_w0, One - ctx.alpha, FALSE))
          [] filter_type = "Notch" ->
                 PR_from_raw(Raw(One, -2 * ctx.cos_w0, One, One + ctx.alpha,
                                 -2 * ctx.cos_w0, One - ctx.alpha, FALSE))
          [] filter_type = "AllPass" ->
                 PR_from_raw(Raw(One - ctx.alpha, -2 * ctx.cos_w0,
                                 One + ctx.alpha, One + ctx.alpha,
                                 -2 * ctx.cos_w0, One - ctx.alpha, FALSE))
          [] filter_type = "LowPass6dB" -> PR_one_pole(ctx, TRUE)
          [] filter_type = "HighPass6dB" -> PR_one_pole(ctx, FALSE)
          [] filter_type = "Peaking" -> PR_peaking(ctx, ctx.alpha, ctx.a)
          [] filter_type = "LowShelf" -> PR_shelf(ctx, TRUE, ctx.alpha, ctx.a)
          [] filter_type = "HighShelf" ->
                 PR_shelf(ctx, FALSE, ctx.alpha, ctx.a)
          [] filter_type = "Tilt" -> PR_tilt(ctx, gain_db)
          [] filter_type = "LinkwitzRileyLP" -> PR_lowpass(ctx, with_q(500))
          [] filter_type = "LinkwitzRileyHP" -> PR_highpass(ctx, with_q(500))
          [] filter_type = "ButterworthLP" ->
                 PR_lowpass(ctx, with_q(FRAC_1_SQRT_2))
          [] filter_type = "ButterworthHP" ->
                 PR_highpass(ctx, with_q(FRAC_1_SQRT_2))
          [] filter_type = "BandPass0dB" ->
                 PR_from_raw(Raw(FMul(q, ctx.alpha), 0, FMul(-q, ctx.alpha),
                                 One + ctx.alpha, -2 * ctx.cos_w0,
                                 One - ctx.alpha, FALSE))
          [] filter_type = "Warmth" -> PR_shelf(ctx, TRUE, with_q(600), ca)
          [] filter_type = "Brightness" ->
                 PR_shelf(ctx, FALSE, with_q(700), ca)
          [] filter_type = "Air" -> PR_shelf(ctx, FALSE, with_q(500), ca)
          [] filter_type = "SubBass" -> PR_shelf(ctx, TRUE, with_q(800), ca)
          [] filter_type = "Presence" -> PR_peaking(ctx, with_q(1500), ca)
          [] filter_type = "Vocal" -> PR_peaking(ctx, with_q(2000), ca)
          [] filter_type = "DCBlock" -> PR_dc_block(sample_rate)
          [] filter_type = "Unity" ->
                 [b0 |-> One, b1 |-> 0, b2 |-> 0, a1 |-> 0, a2 |-> 0,
                  finite |-> TRUE]

\* what a caller of compute_coefficients gets: a panic in freq.clamp, or
\* the coefficients
PR_outcome(filter_type, freq, q, gain_db, sample_rate) ==
    IF ClampPanics(sample_rate)
    THEN [panicked |-> TRUE, c |-> Normalize(RawUnity)]
    ELSE [panicked |-> FALSE,
          c |-> PR_compute_coefficients(filter_type, freq, q, gain_db,
                                        sample_rate)]

\* the parameters explored: <<freq, q, gain_db, sample_rate>>
Freqs == {0, 4000, 12000, 15542, 23952, 30000}

Qs == {100, 707, 2000}

GainsDb == {-2000, -24, 0, 3, 12}

SampleRates == {0, 1, 48000}

\* a call about to be made with these arguments
Request(filter_type, freq, q, gain_db, sample_rate) ==
    [called |-> FALSE, filter_type |-> filter_type, freq |-> freq, q |-> q,
     gain_db |-> gain_db, sample_rate |-> sample_rate, panicked |-> FALSE,
     raw |-> RawUnity, c |-> Normalize(RawUnity),
     pr |-> [panicked |-> FALSE, c |-> Normalize(RawUnity)]]

Derivation(filter_type, freq, q, gain_db, sample_rate) ==
    LET panics == ClampPanics(sample_rate)
        raw == IF panics THEN RawUnity
               ELSE RawCoefficients(filter_type, ClampFreq(freq, sample_rate),
                                    q, gain_db, sample_rate)
    IN  [called |-> TRUE, filter_type |-> filter_type, freq |-> freq, q |-> q,
         gain_db |-> gain_db, sample_rate |-> sample_rate,
         panicked |-> panics, raw |-> raw, c |-> Normalize(raw),
         pr |-> PR_outcome(filter_type, freq, q, gain_db, sample_rate)]

\* lib.rs: the plugin's own FilterType
PluginFilterTypes == {"LowPass", "HighPass", "BandPass"}

\* lib.rs: w0 = 2.0 * PI * freq / sample_rate, from the frequency as given;
\* a zero sample rate makes w0 inf or NaN, and so every coefficient NaN
PluginRaw(filter_type, freq, q, sample_rate) ==
    IF sample_rate = 0 THEN Raw(0, 0, 0, 0, 0, 0, TRUE)
    ELSE LET w0 == W0(freq, sample_rate)
             cos_w0 == Cos(w0)
             alpha == Alpha(Sin(w0), q)
         IN  CASE filter_type = "LowPass" -> RawLowPassWith(cos_w0, alpha)
               [] filter_type = "HighPass" -> RawHighPassWith(cos_w0, alpha)
               [] filter_type = "BandPass" -> RawBandPass(cos_w0, alpha)

PluginCoefficients(filter_type, freq, q, sample_rate) ==
    Normalize(PluginRaw(filter_type, freq, q, sample_rate))

NoPlug == [called |-> FALSE, w0 |-> 0, c |-> Normalize(RawUnity)]

PluginDerivation(filter_type, freq, q, sample_rate) ==
    [called |-> TRUE,
     w0 |-> IF sample_rate = 0 THEN 0 ELSE W0(freq, sample_rate),
     c |-> PluginCoefficients(filter_type, freq, q, sample_rate)]

COEF_Init ==
    /\ \E filter_type \in FilterTypes, freq \in Freqs, q \in Qs,
          gain_db \in GainsDb, sample_rate \in SampleRates :
           coef = Request(filter_type, freq, q, gain_db, sample_rate)
    /\ plug = NoPlug

COEF_Idle ==
    /\ coef = Request("Unity", 4000, 707, 0, 48000)
    /\ plug = NoPlug

ComputeCoefficients ==
    /\ unit = "coef"
    /\ ~coef.called
    /\ coef' = Derivation(coef.filter_type, coef.freq, coef.q, coef.gain_db,
                          coef.sample_rate)
    /\ UNCHANGED <<unit, plug, dl_vars, bq_vars, env_vars, comp_vars, dc, cf, curve>>

\* lib.rs Biquad::update, called with the same arguments
PluginUpdate ==
    /\ unit = "coef"
    /\ ~plug.called
    /\ coef.filter_type \in PluginFilterTypes
    /\ plug' = PluginDerivation(coef.filter_type, coef.freq, coef.q,
                                coef.sample_rate)
    /\ UNCHANGED <<unit, coef, dl_vars, bq_vars, env_vars, comp_vars, dc, cf, curve>>

-----------------------------------------------------------------------------
(* Biquad, dsp/biquad.rs.  Samples are whole multiples of 1e-12, so the    *)
(* flush threshold 1e-11 is 10.  finite tells whether the coefficients are *)
(* finite, ok whether the output history y1, y2 is: a NaN or inf there     *)
(* makes every later output NaN or inf until reset.                        *)

FlushThreshold == 10

BqInputs == {-9, 10, 30000}

BqUpdates ==
    {<<"Unity", 30000, 100, -24, 48000>>,
     <<"LowPass", 4000, 707, 0, 48000>>,
     <<"Peaking", 12000, 2000, 12, 48000>>,
     <<"Tilt", 4000, 707, -2000, 48000>>,
     <<"Unity", 4000, 707, 0, 1>>}

BQ_new ==
    [a1 |-> 0, a2 |-> 0, b0 |-> 0, b1 |-> 0, b2 |-> 0, finite |-> TRUE,
     x1 |-> 0, x2 |-> 0, y1 |-> 0, y2 |-> 0, ok |-> TRUE]

\* a reset that forgets y2
BQ_reset_KeepsY2(s) ==
    [s EXCEPT !.x1 = 0, !.x2 = 0, !.y1 = 0]

BQ_reset(s) ==
    [s EXCEPT !.x1 = 0, !.x2 = 0, !.y1 = 0, !.y2 = 0, !.ok = TRUE]

BQ_update(s, filter_type, freq, q, gain_db, sample_rate) ==
    LET c == Coefficients(filter_type, freq, q, gain_db, sample_rate)
    IN  [s EXCEPT !.b0 = c.b0, !.b1 = c.b1, !.b2 = c.b2, !.a1 = c.a1,
                  !.a2 = c.a2, !.finite = c.finite]

\* no flush at all
Flush_Never(output) == output

\* if output.abs() < 1e-11 { output = 0.0 }
Flush(output) ==
    IF Abs(output) < FlushThreshold THEN 0 ELSE output

BQ_sum(s, input) ==
    FMul(s.b0, input) + FMul(s.b1, s.x1) + FMul(s.b2, s.x2)
        - FMul(s.a1, s.y1) - FMul(s.a2, s.y2)

BQ_finite(s) == s.finite /\ s.ok

BQ_output(s, input) ==
    IF BQ_finite(s) THEN Flush(BQ_sum(s, input)) ELSE 0

BQ_process(s, input) ==
    [s EXCEPT !.x2 = s.x1, !.x1 = input, !.y2 = s.y1,
              !.y1 = BQ_output(s, input), !.ok = BQ_finite(s)]

NoUpdate ==
    [called |-> FALSE, filter_type |-> "Unity", freq |-> 0, q |-> 0,
     gain_db |-> 0, sample_rate |-> 0, panicked |-> FALSE]

NoBqIo == [called |-> FALSE, pre |-> BQ_new, up |-> NoUpdate, input |-> 0,
           out |-> 0, ok |-> TRUE]

BqDirty(s) == s.x1 # 0 \/ s.x2 # 0 \/ s.y1 # 0 \/ s.y2 # 0 \/ ~s.ok

\* Biquad::new() configured by the update call u, if one was made
BQ_configured(u) ==
    IF u.called
    THEN BQ_update(BQ_new, u.filter_type, u.freq, u.q, u.gain_db,
                   u.sample_rate)
    ELSE BQ_new

BQ_Init ==
    /\ bq = BQ_new
    /\ bq_up = NoUpdate
    /\ bq_io = NoBqIo
    /\ bq_hist = <<>>
    /\ bq_fresh = BQ_new
    /\ bq_origin = [op |-> "new", dirty |-> FALSE]
    /\ bq_calls = 0

BQ_Reset ==
    /\ unit = "biquad"
    /\ ~bq_up.panicked
    /\ bq' = BQ_reset(bq)
    /\ bq_fresh' = BQ_configured(bq_up)
    /\ bq_hist' = <<>>
    /\ bq_io' = NoBqIo
    /\ bq_origin' = [op |-> "reset", dirty |-> BqDirty(bq)]
    /\ UNCHANGED <<unit, bq_up, bq_calls, dl_vars, coef_vars, env_vars, comp_vars, dc, cf, curve>>

BQ_Update ==
    /\ unit = "biquad"
    /\ ~bq_up.panicked
    /\ \E u \in BqUpdates :
        LET up == [called |-> TRUE, filter_type |-> u[1], freq |-> u[2],
                   q |-> u[3], gain_db |-> u[4], sample_rate |-> u[5],
                   panicked |-> ClampPanics(u[5])]
        IN  /\ bq_up' = up
            /\ IF up.panicked
               THEN UNCHANGED <<bq, bq_fresh>>
               ELSE /\ bq' = BQ_update(bq, u[1], u[2], u[3], u[4], u[5])
                    /\ bq_fresh' = BQ_update(bq_fresh, u[1], u[2], u[3], u[4],
                                             u[5])
    /\ UNCHANGED <<unit, bq_io, bq_hist, bq_origin, bq_calls, dl_vars,
                   coef_vars, env_vars, comp_vars, dc, cf, curve>>

BQ_Process ==
    /\ unit = "biquad"
    /\ ~bq_up.panicked
    /\ bq_calls < MaxCalls
    /\ \E input \in BqInputs :
        /\ bq' = BQ_process(bq, input)
        /\ bq_fresh' = BQ_process(bq_fresh, input)
        /\ bq_io' = [called |-> TRUE, pre |-> bq, up |-> bq_up,
                     input |-> input, out |-> BQ_output(bq, input),
                     ok |-> BQ_finite(bq)]
        /\ bq_hist' = Append(bq_hist,
               [input |-> input, out |-> BQ_output(bq, input),
                ok |-> BQ_finite(bq),
                fresh_out |-> BQ_output(bq_fresh, input),
                fresh_ok |-> BQ_finite(bq_fresh)])
    /\ bq_calls' = bq_calls + 1
    /\ UNCHANGED <<unit, bq_up, bq_origin, dl_vars, coef_vars, env_vars, comp_vars, dc, cf, curve>>

-----------------------------------------------------------------------------
(* EnvelopeFollower, dsp/envelope.rs, which is all the state of Compressor *)
(* (dsp/compressor.rs).  Levels are whole multiples of 1e-16, so the       *)
(* anti-denormal threshold 1e-15 is 10; coefficients are fixed point.      *)

EnvFlushThreshold == 10

EnvInputs == {5, 2000, -3000}

\* <<attack_ms, release_ms, sample_rate>>
EnvTimes == {<<0, 0, 1000>>, <<1, 10, 1000>>, <<10, 1, 1000>>, <<-1, 10, 1000>>}

\* (-1.0 / (ms * 0.001 * sample_rate)).exp(), from the time in thousandths
\* of a sample; -1.0 / 0.0 is -inf, whose exp is 0.0; a negative time gives a
\* coefficient above 1
TimeCoeff(ms, sample_rate) ==
    LET n == ms * sample_rate
    IN  CASE n = 0 -> 0 [] n = 1000 -> 368 [] n = 10000 -> 905
          [] n = -1000 -> 2718
          [] n = 4410 -> 797 [] n = 441000 -> 997 [] n = 4410000 -> 999

ENV_default == [envelope |-> 0, attack_coeff |-> 0, release_coeff |-> 0]

\* a reset that rebuilds the follower
ENV_reset_Rebuilds(s) == ENV_default

ENV_reset(s) == [s EXCEPT !.envelope = 0]

ENV_set_times(s, attack_ms, release_ms, sample_rate) ==
    [s EXCEPT !.attack_coeff = TimeCoeff(attack_ms, sample_rate),
              !.release_coeff = TimeCoeff(release_ms, sample_rate)]

\* a follower whose smoothing term has the wrong sign
ENV_step_Overshoot(s, input, threshold) ==
    LET input_abs == Abs(input)
        coeff == IF input_abs > s.envelope THEN s.attack_coeff
                 ELSE s.release_coeff
        envelope == input_abs - FMul(coeff, s.envelope - input_abs)
    IN  [s EXCEPT !.envelope = IF envelope < threshold THEN 0 ELSE envelope]

\* process, with the anti-denormal threshold 1e-15 in the caller's level unit
ENV_step(s, input, threshold) ==
    LET input_abs == Abs(input)
        coeff == IF input_abs > s.envelope THEN s.attack_coeff
                 ELSE s.release_coeff
        envelope == input_abs + FMul(coeff, s.envelope - input_abs)
    IN  [s EXCEPT !.envelope = IF envelope < threshold THEN 0 ELSE envelope]

ENV_process(s, input) == ENV_step(s, input, EnvFlushThreshold)

NoTimes == [called |-> FALSE, attack_ms |-> 0, release_ms |-> 0,
            sample_rate |-> 0]

\* a default follower configured by the set_times call t, if one was made
ENV_configured(t) ==
    IF t.called
    THEN ENV_set_times(ENV_default, t.attack_ms, t.release_ms, t.sample_rate)
    ELSE ENV_default

ENV_Init ==
    /\ env = ENV_default
    /\ env_times = NoTimes
    /\ env_hist = <<>>
    /\ env_fresh = ENV_default
    /\ env_origin = [op |-> "default", dirty |-> FALSE]
    /\ env_calls = 0

ENV_Reset ==
    /\ unit = "envelope"
    /\ env' = ENV_reset(env)
    /\ env_fresh' = ENV_configured(env_times)
    /\ env_hist' = <<>>
    /\ env_origin' = [op |-> "reset", dirty |-> env.envelope # 0]
    /\ UNCHANGED <<unit, env_times, env_calls, dl_vars, bq_vars, coef_vars, comp_vars, dc, cf, curve>>

ENV_SetTimes ==
    /\ unit = "envelope"
    /\ \E t \in EnvTimes :
        /\ env' = ENV_set_times(env, t[1], t[2], t[3])
        /\ env_fresh' = ENV_set_times(env_fresh, t[1], t[2], t[3])
        /\ env_times' = [called |-> TRUE, attack_ms |-> t[1],
                         release_ms |-> t[2], sample_rate |-> t[3]]
    /\ UNCHANGED <<unit, env_hist, env_origin, env_calls, dl_vars, bq_vars,
                   coef_vars, comp_vars, dc, cf, curve>>

ENV_Process ==
    /\ unit = "envelope"
    /\ env_calls < MaxCalls
    /\ \E input \in EnvInputs :
        /\ env' = ENV_process(env, input)
        /\ env_fresh' = ENV_process(env_fresh, input)
        /\ env_hist' = Append(env_hist,
               [input |-> input, before |-> env.envelope,
                attack_coeff |-> env.attack_coeff,
                release_coeff |-> env.release_coeff,
                out |-> ENV_process(env, input).envelope,
                fresh_out |-> ENV_process(env_fresh, input).envelope])
    /\ env_calls' = env_calls + 1
    /\ UNCHANGED <<unit, env_times, env_origin, dl_vars, bq_vars, coef_vars, comp_vars, dc, cf, curve>>

-----------------------------------------------------------------------------
(* Compressor, dsp/compressor.rs.  Levels are fixed point with One for     *)
(* full scale 1.0, so the smallest level above 0 is 0.001: every level     *)
(* above 0 is above 1e-10 and 1e-15.  Decibels are fixed point with One    *)
(* for 1 dB, ratios fixed point.  log10 and powf are taken on whole        *)
(* decibels, rounded down.  A linear gain is [m, e], standing for          *)
(* m/One * 10^e with m in One..10*One, or m = 0 for a powf that underflows *)
(* f32 to 0.0.                                                             *)

\* envelope < 1e-15: below the smallest level above 0
CompFlushThreshold == 1

\* envelope > 1e-10: any level above 0
DbFloorLevel == 0

\* <<left, right>>
StereoInputs == {<<0, 0>>, <<-10, 5>>, <<1000, 1000>>}

\* <<threshold_db, ratio, knee_db>>
CompArgs ==
    {<<-20000, 4000, 0>>, <<-40000, 4000, 6000>>, <<-1000000, 20000, 0>>}

\* <<attack_ms, release_ms, sample_rate>>; 1 ms and 1000 ms at 4410 Hz are the
\* 4.41 and 4410 samples of 0.1 ms and 100 ms at 44100 Hz
CompTimes == {<<1, 1000, 4410>>, <<100, 1000, 4410>>, <<0, 0, 4410>>}

\* 10^(r/20) for r = 0..19
TenPow20 ==
    <<1000, 1122, 1259, 1413, 1585, 1778, 1995, 2239, 2512, 2818,
      3162, 3548, 3981, 4467, 5012, 5623, 6310, 7079, 7943, 8913>>

RECURSIVE Pow10Int(_)
Pow10Int(k) == IF k = 0 THEN 1 ELSE 10 * Pow10Int(k - 1)

\* the level of d whole decibels, rounded up
LevelAtDb(d) ==
    LET k == d \div 20
        m == TenPow20[(d % 20) + 1]
    IN  IF k >= 0 THEN m * Pow10Int(k) ELSE CeilDiv(m, Pow10Int(-k))

DbGrid == -60..6

LevelTable == [d \in -60..7 |-> LevelAtDb(d)]

\* 20.0 * envelope.log10()
Log20(envelope) ==
    One * (CHOOSE d \in DbGrid :
               LevelTable[d] <= envelope /\ envelope < LevelTable[d + 1])

\* the level reported for an envelope of 1e-10 or less
DbFloor == -100 * One

\* if envelope > 1e-10 { 20.0 * envelope.log10() } else { -100.0 }
InputDb(envelope) ==
    IF envelope > DbFloorLevel THEN Log20(envelope) ELSE DbFloor

\* an above-knee branch with the sign of the reduction turned
ComputeGainReduction_Expands(input_db, threshold_db, ratio, knee_db) ==
    IF input_db >= threshold_db
    THEN (input_db - threshold_db) - FDiv(input_db - threshold_db, ratio)
    ELSE 0

\* a gain computer that applies the ratio below the threshold as well
ComputeGainReduction_NoThreshold(input_db, threshold_db, ratio, knee_db) ==
    FDiv(input_db - threshold_db, ratio) - (input_db - threshold_db)

\* a knee cut twice as deep: (1/ratio - 1) * x * x / knee_db
ComputeGainReduction_DeepKnee(input_db, threshold_db, ratio, knee_db) ==
    LET half_knee == TruncDiv(knee_db, 2)
    IN  IF /\ knee_db > 0
           /\ input_db > threshold_db - half_knee
           /\ input_db < threshold_db + half_knee
        THEN LET x == input_db - threshold_db + half_knee
             IN  FDiv(FMul(FMul(FDiv(One, ratio) - One, x), x), knee_db)
        ELSE IF input_db >= threshold_db + half_knee
        THEN FDiv(input_db - threshold_db, ratio) - (input_db - threshold_db)
        ELSE 0

\* a gain computer that knows no knee
ComputeGainReduction_HardOnly(input_db, threshold_db, ratio, knee_db) ==
    IF input_db >= threshold_db
    THEN FDiv(input_db - threshold_db, ratio) - (input_db - threshold_db)
    ELSE 0

ComputeGainReduction(input_db, threshold_db, ratio, knee_db) ==
    LET half_knee == TruncDiv(knee_db, 2)
    IN  IF /\ knee_db > 0
           /\ input_db > threshold_db - half_knee
           /\ input_db < threshold_db + half_knee
        THEN LET x == input_db - threshold_db + half_knee
             IN  FDiv(FMul(FMul(FDiv(One, ratio) - One, x), x), 2 * knee_db)
        ELSE IF input_db >= threshold_db + half_knee
        THEN LET excess == input_db - threshold_db
                 compressed_excess == FDiv(excess, ratio)
             IN  compressed_excess - excess
        ELSE 0

GainZero == [m |-> 0, e |-> -100]

\* 10.0f32.powf(gain_reduction_db / 20.0); below about -903 dB the power is
\* under half of f32's smallest positive number and comes out as 0.0
DbToGain(db) ==
    LET d == db \div One
    IN  IF d < -903 THEN GainZero
        ELSE [m |-> TenPow20[(d % 20) + 1], e |-> d \div 20]

\* orders gains as their values are ordered
GainKey(g) == g.e * 10 * One + g.m

COMP_new == [envelope |-> ENV_default]

COMP_reset(s) == [s EXCEPT !.envelope = ENV_reset(s.envelope)]

COMP_set_times(s, attack_ms, release_ms, sample_rate) ==
    [s EXCEPT !.envelope = ENV_set_times(s.envelope, attack_ms, release_ms,
                                         sample_rate)]

\* a detector that adds the channels
Detect_Sum(left, right) == Abs(left) + Abs(right)

\* left.abs().max(right.abs())
Detect(left, right) == Max(Abs(left), Abs(right))

COMP_process_stereo(s, left, right) ==
    [s EXCEPT !.envelope = ENV_step(s.envelope, Detect(left, right),
                                    CompFlushThreshold)]

\* at most MaxCalls process_stereo calls follow a new or a reset, except that
\* a run repeating its first call under unchanged times goes on to MaxBurst
MaxBurst == 1000

GainOne == [m |-> One, e |-> 0]

NoCompIo ==
    [called |-> FALSE, left |-> 0, right |-> 0,
     threshold_db |-> 0, ratio |-> One, knee_db |-> 0,
     before |-> 0, envelope |-> 0, input_db |-> 0, reduction_db |-> 0,
     gain |-> GainOne, has_prev |-> FALSE, prev_gain |-> GainOne]

\* n calls since new / reset, max the largest detection level among them,
\* uniform: each repeated the first; steady: no set_times since the first
NoCompRun ==
    [n |-> 0, max |-> 0, uniform |-> TRUE, steady |-> TRUE,
     first |-> <<0, 0, 0, One, 0>>]

COMP_Init ==
    /\ comp = COMP_new
    /\ comp_io = NoCompIo
    /\ comp_run = NoCompRun

COMP_Reset ==
    /\ unit = "comp"
    /\ comp' = COMP_reset(comp)
    /\ comp_io' = NoCompIo
    /\ comp_run' = NoCompRun
    /\ UNCHANGED <<unit, dl_vars, bq_vars, coef_vars, env_vars, dc, cf, curve>>

COMP_SetTimes ==
    /\ unit = "comp"
    /\ \E t \in CompTimes :
           /\ <<comp.envelope.attack_coeff, comp.envelope.release_coeff>>
                  # <<TimeCoeff(t[1], t[3]), TimeCoeff(t[2], t[3])>>
           /\ comp' = COMP_set_times(comp, t[1], t[2], t[3])
    /\ comp_run' = [comp_run EXCEPT !.steady = (comp_run.n = 0)]
    /\ UNCHANGED <<unit, comp_io, dl_vars, bq_vars, coef_vars, env_vars, dc, cf, curve>>

COMP_Process ==
    /\ unit = "comp"
    /\ \E in \in StereoInputs, a \in CompArgs :
           LET call == <<in[1], in[2], a[1], a[2], a[3]>>
               s == COMP_process_stereo(comp, in[1], in[2])
               envelope == s.envelope.envelope
               input_db == InputDb(envelope)
               gain_reduction_db ==
                   ComputeGainReduction(input_db, a[1], a[2], a[3])
           IN  /\ \/ comp_run.n < MaxCalls
                  \/ /\ comp_run.n < MaxBurst
                     /\ comp_run.uniform
                     /\ comp_run.steady
                     /\ call = comp_run.first
               /\ comp' = s
               /\ comp_io' =
                      [called |-> TRUE, left |-> in[1], right |-> in[2],
                       threshold_db |-> a[1], ratio |-> a[2], knee_db |-> a[3],
                       before |-> comp.envelope.envelope,
                       envelope |-> envelope, input_db |-> input_db,
                       reduction_db |-> gain_reduction_db,
                       gain |-> DbToGain(gain_reduction_db),
                       has_prev |-> comp_io.called,
                       prev_gain |-> comp_io.gain]
               /\ comp_run' =
                      [n |-> comp_run.n + 1,
                       max |-> Max(comp_run.max, Detect(in[1], in[2])),
                       uniform |-> /\ comp_run.uniform
                                   /\ comp_run.n > 0 => call = comp_run.first,
                       steady |-> comp_run.steady,
                       first |-> IF comp_run.n = 0 THEN call
                                 ELSE comp_run.first]
    /\ UNCHANGED <<unit, dl_vars, bq_vars, coef_vars, env_vars, dc, cf, curve>>

-----------------------------------------------------------------------------
(* The biquad of dsp/biquad.rs once more, at eight decimal places instead  *)
(* of three, for what is said about its output to within 1e-4.  Values are *)
(* whole multiples of 1e-8; products and quotients are exact and then      *)
(* truncated, computed in parts that stay within 32 bits.                  *)

\* 1.0
Wide == 100000000

\* the square root of Wide, the base products are split in
WideBase == 10000

\* a * b, for |a|, |b| below 4.0
WMul(a, b) ==
    LET x == Abs(a)
        y == Abs(b)
        xh == x \div WideBase
        xl == x % WideBase
        yh == y \div WideBase
        yl == y % WideBase
        m == xh * yl + xl * yh
        p == xh * yh + m \div WideBase
                 + ((m % WideBase) * WideBase + xl * yl) \div Wide
    IN  IF (a < 0) = (b < 0) THEN p ELSE -p

\* the factors of Wide, one long-division step each
WideRadices == <<5, 5, 5, 5, 5, 5, 5, 5, 2, 2, 2, 2, 2, 2, 2, 2>>

\* r * (the product of the radices from k on) \div b, with acc so far; r < b
RECURSIVE LongDiv(_, _, _, _)
LongDiv(r, b, acc, k) ==
    IF k > Len(WideRadices) THEN acc
    ELSE LET t == r * WideRadices[k]
         IN  LongDiv(t % b, b, acc * WideRadices[k] + t \div b, k + 1)

\* a / b, for 0 < |b| below 4.2 and a quotient below 20
WDiv(a, b) ==
    LET x == Abs(a)
        y == Abs(b)
        p == (x \div y) * Wide + LongDiv(x % y, y, 0, 1)
    IN  IF (a < 0) = (b < 0) THEN p ELSE -p

\* <<freq, q, sample_rate>>: Hz, thousandths, Hz
DcSettings ==
    {<<4000, 707, 48000>>, <<1000, 707, 44100>>, <<1000, 2000, 48000>>,
     <<100, 2000, 48000>>, <<20, 707, 48000>>}

DcFilterTypes == {"LowPass", "HighPass"}

\* (2.0 * PI * freq / sample_rate).cos()
CosW(freq, sample_rate) ==
    CASE freq = 4000 /\ sample_rate = 48000 -> 86602540
      [] freq = 1000 /\ sample_rate = 44100 -> 98986747
      [] freq = 1000 /\ sample_rate = 48000 -> 99144486
      [] freq = 100 /\ sample_rate = 48000 -> 99991432
      [] freq = 20 /\ sample_rate = 48000 -> 99999657

\* (2.0 * PI * freq / sample_rate).sin()
SinW(freq, sample_rate) ==
    CASE freq = 4000 /\ sample_rate = 48000 -> 49999999
      [] freq = 1000 /\ sample_rate = 44100 -> 14199431
      [] freq = 1000 /\ sample_rate = 48000 -> 13052619
      [] freq = 100 /\ sample_rate = 48000 -> 1308959
      [] freq = 20 /\ sample_rate = 48000 -> 261799

BQW_new ==
    [b0 |-> 0, b1 |-> 0, b2 |-> 0, a1 |-> 0, a2 |-> 0,
     x1 |-> 0, x2 |-> 0, y1 |-> 0, y2 |-> 0]

BQW_reset(s) == [s EXCEPT !.x1 = 0, !.x2 = 0, !.y1 = 0, !.y2 = 0]

\* update, for LowPass and HighPass
BQW_update(s, filter_type, freq, q, sample_rate) ==
    LET f == ClampFreq(freq, sample_rate)
        cos_w0 == CosW(f, sample_rate)
        sin_w0 == SinW(f, sample_rate)
        alpha == WDiv(sin_w0, 2 * q * (Wide \div One))
        b1 == IF filter_type = "LowPass" THEN Wide - cos_w0
              ELSE -(Wide + cos_w0)
        b0 == IF filter_type = "LowPass" THEN (Wide - cos_w0) \div 2
              ELSE (Wide + cos_w0) \div 2
        a0 == Wide + alpha
        a1 == -2 * cos_w0
        a2 == Wide - alpha
        inv_a0 == WDiv(Wide, a0)
    IN  [s EXCEPT !.b0 = WMul(b0, inv_a0), !.b1 = WMul(b1, inv_a0),
                  !.b2 = WMul(b0, inv_a0), !.a1 = WMul(a1, inv_a0),
                  !.a2 = WMul(a2, inv_a0)]

\* output.abs() < 1e-11: below the smallest value above 0
WideFlushThreshold == 1

\* a recurrence without its feedback terms
BQW_sum_FeedForward(s, input) ==
    WMul(s.b0, input) + WMul(s.b1, s.x1) + WMul(s.b2, s.x2)

BQW_sum(s, input) ==
    WMul(s.b0, input) + WMul(s.b1, s.x1) + WMul(s.b2, s.x2)
        - WMul(s.a1, s.y1) - WMul(s.a2, s.y2)

BQW_output(s, input) ==
    LET output == BQW_sum(s, input)
    IN  IF Abs(output) < WideFlushThreshold THEN 0 ELSE output

BQW_process(s, input) ==
    [s EXCEPT !.x2 = s.x1, !.x1 = input, !.y2 = s.y1,
              !.y1 = BQW_output(s, input)]

\* the samples fed: silence and 1.0
DcInputs == {0, Wide}

\* a run of 1.0 alone goes on to MaxSettle calls, any other to MaxCalls
MaxSettle == 1100

NoDcUpdate == [called |-> FALSE, filter_type |-> "LowPass", freq |-> 0,
               q |-> 0, sample_rate |-> 0]

\* s the filter, up its last update, n the process calls since new / reset,
\* steady: each of them fed 1.0, out the last output
DC_Init ==
    dc = [s |-> BQW_new, up |-> NoDcUpdate, n |-> 0, steady |-> TRUE,
          out |-> 0]

\* update, on a filter that is at rest
DC_Update ==
    /\ unit = "dc"
    /\ dc.n = 0
    /\ \E filter_type \in DcFilterTypes, u \in DcSettings :
           /\ dc.up # [called |-> TRUE, filter_type |-> filter_type,
                       freq |-> u[1], q |-> u[2], sample_rate |-> u[3]]
           /\ dc' = [dc EXCEPT
                  !.s = BQW_update(dc.s, filter_type, u[1], u[2], u[3]),
                  !.up = [called |-> TRUE, filter_type |-> filter_type,
                          freq |-> u[1], q |-> u[2], sample_rate |-> u[3]]]
    /\ UNCHANGED <<unit, dl_vars, bq_vars, coef_vars, env_vars, comp_vars, cf, curve>>

DC_Reset ==
    /\ unit = "dc"
    /\ dc.n > 0
    /\ dc' = [dc EXCEPT !.s = BQW_reset(dc.s), !.n = 0, !.steady = TRUE,
                        !.out = 0]
    /\ UNCHANGED <<unit, dl_vars, bq_vars, coef_vars, env_vars, comp_vars, cf, curve>>

DC_Process ==
    /\ unit = "dc"
    /\ \E input \in DcInputs :
           /\ \/ dc.n < MaxCalls
              \/ dc.n < MaxSettle /\ dc.steady /\ input = Wide
           /\ dc' = [dc EXCEPT !.s = BQW_process(dc.s, input),
                               !.n = dc.n + 1,
                               !.steady = dc.steady /\ input = Wide,
                               !.out = BQW_output(dc.s, input)]
    /\ UNCHANGED <<unit, dl_vars, bq_vars, coef_vars, env_vars, comp_vars, cf, curve>>

-----------------------------------------------------------------------------
(* The filter plugin: CantripFilter over a stereo block *)

\* the frames a block is made of: <<left, right>>
CfFrames == {<<1000, -500>>, <<250, 250>>}

MaxFrames == 3

MaxBlocks == 3

\* a block: one frame of both channels per sample
CfBlocks ==
    UNION {[1..n -> CfFrames] : n \in 1..MaxFrames}

\* the parameter values the host holds: filter type, frequency, resonance
CfParams == {<<"LowPass", 4000, 707>>}

CfSampleRates == {48000}

\* the plugin's own Biquad::update: no frequency clamp
PB_update(s, filter_type, freq, q, sample_rate) ==
    LET c == PluginCoefficients(filter_type, freq, q, sample_rate)
    IN  [s EXCEPT !.b0 = c.b0, !.b1 = c.b1, !.b2 = c.b2, !.a1 = c.a1,
                  !.a2 = c.a2, !.finite = c.finite]

PB_output(s, input) ==
    IF s.finite /\ s.ok
    THEN LET output == FMul(s.b0, input) + FMul(s.b1, s.x1)
                       + FMul(s.b2, s.x2) - FMul(s.a1, s.y1)
                       - FMul(s.a2, s.y2)
         IN  IF Abs(output) < FlushThreshold THEN 0 ELSE output
    ELSE 0

PB_process(s, input) ==
    [s EXCEPT !.x2 = s.x1, !.x1 = input, !.y2 = s.y1,
              !.y1 = PB_output(s, input), !.ok = s.finite /\ s.ok]

PB_reset(s) ==
    [s EXCEPT !.x1 = 0, !.x2 = 0, !.y1 = 0, !.y2 = 0, !.ok = TRUE]

\* gain_values: one smoothed gain per sample of the block, here unity
CF_gain_values(num_samples) == [i \in 1..num_samples |-> One]

\* the Biquad the loop picks: self.filters[channel_idx], channel_idx being
\* the index enumerate() gives the outer loop
CF_pick(outer, inner) == outer

\* the inner loop, over the items of one iter_samples() item: item inner of
\* the outer item is filtered, then scaled by gain_values[inner]; an index
\* past gain_values panics after the filter has run
RECURSIVE CF_inner(_, _, _)
CF_inner(st, outer, inner) ==
    IF inner > 2 \/ st.panicked THEN st
    ELSE LET which == CF_pick(outer, inner)
             filter == st.filters[which]
             sample == st.out[outer][inner]
             filtered == PB_output(filter, sample)
             fed == [st.fed EXCEPT
                        ![which] = Append(@, <<inner, outer>>)]
             filters == [st.filters EXCEPT
                            ![which] = PB_process(filter, sample)]
         IN  IF inner > Len(st.gain_values)
             THEN [st EXCEPT !.filters = filters, !.fed = fed,
                             !.panicked = TRUE]
             ELSE CF_inner(
                      [st EXCEPT
                          !.filters = filters, !.fed = fed,
                          !.out[outer][inner] =
                              FMul(filtered, st.gain_values[inner])],
                      outer, inner + 1)

\* the outer loop, over buffer.iter_samples().enumerate(): it stops at the
\* first index that is no index of self.filters, updates the Biquad it picks
\* and runs the inner loop
RECURSIVE CF_outer(_, _, _)
CF_outer(st, outer, p) ==
    IF outer > Len(st.out) \/ outer > 2 \/ st.panicked THEN st
    ELSE LET updated == [st EXCEPT
                 !.filters[outer] =
                     PB_update(@, p[1], p[2], p[3], st.sample_rate)]
         IN  CF_outer(CF_inner(updated, outer, 1), outer + 1, p)

\* CantripFilter::process on one block
CF_process(filters, sample_rate, block, p) ==
    CF_outer([filters |-> filters, sample_rate |-> sample_rate,
              gain_values |-> CF_gain_values(Len(block)), out |-> block,
              fed |-> <<<<>>, <<>>>>, panicked |-> FALSE], 1, p)

NoCfIo == [called |-> FALSE, block |-> <<>>, out |-> <<>>,
           fed |-> <<<<>>, <<>>>>, panicked |-> FALSE]

\* Default for CantripFilter
CF_Init ==
    cf = [filters |-> <<BQ_new, BQ_new>>, sample_rate |-> 44100,
          initialized |-> FALSE, calls |-> 0, io |-> NoCfIo]

CF_Initialize ==
    /\ unit = "plugin"
    /\ ~cf.io.panicked
    /\ ~cf.initialized \/ cf.calls > 0
    /\ \E sample_rate \in CfSampleRates :
           cf' = [cf EXCEPT !.sample_rate = sample_rate,
                            !.filters = <<PB_reset(cf.filters[1]),
                                          PB_reset(cf.filters[2])>>,
                            !.initialized = TRUE, !.calls = 0,
                            !.io = NoCfIo]
    /\ UNCHANGED <<unit, dl_vars, bq_vars, coef_vars, env_vars, comp_vars, dc, curve>>

CF_Reset ==
    /\ unit = "plugin"
    /\ ~cf.io.panicked
    /\ cf.calls > 0
    /\ cf' = [cf EXCEPT !.filters = <<PB_reset(cf.filters[1]),
                                      PB_reset(cf.filters[2])>>,
                        !.calls = 0, !.io = NoCfIo]
    /\ UNCHANGED <<unit, dl_vars, bq_vars, coef_vars, env_vars, comp_vars, dc, curve>>

CF_Process ==
    /\ unit = "plugin"
    /\ cf.initialized
    /\ ~cf.io.panicked
    /\ cf.calls < MaxBlocks
    /\ \E block \in CfBlocks, p \in CfParams :
           LET st == CF_process(cf.filters, cf.sample_rate, block, p)
           IN  cf' = [cf EXCEPT
                   !.filters = st.filters,
                   !.calls = cf.calls + 1,
                   !.io = [called |-> TRUE, block |-> block,
                           out |-> st.out, fed |-> st.fed,
                           panicked |-> st.panicked]]
    /\ UNCHANGED <<unit, dl_vars, bq_vars, coef_vars, env_vars, comp_vars, dc, curve>>


-----------------------------------------------------------------------------
(* The gain computer as a curve: compute_gain_reduction over input levels *)

\* thousandths of a decibel, of a ratio
CurveThresholds == {-40000, -20000, 0}

CurveRatios == {1000, 2000, 4000, 20000}

CurveKnees == {0, 2000, 6000, 12000, 24000}

\* levels around the threshold: far below, across the knee, far above
CurveOffsets ==
    {-60000, -12000, -6000, -3000, -1000, -1, 0, 1, 1000, 3000, 6000, 12000,
     60000}

\* the levels sampled: the offsets, both ends of the knee, and the levels a
\* thousandth of a decibel inside them
CurveInputs(threshold_db, knee_db) ==
    LET half_knee == TruncDiv(knee_db, 2)
    IN  {threshold_db + o : o \in CurveOffsets}
            \cup {threshold_db - half_knee, threshold_db - half_knee + 1,
                  threshold_db + half_knee - 1, threshold_db + half_knee}

CurveRequest(threshold_db, ratio, knee_db) ==
    [called |-> FALSE, threshold_db |-> threshold_db, ratio |-> ratio,
     knee_db |-> knee_db, at |-> <<>>]

CURVE_Init ==
    \E threshold_db \in CurveThresholds, ratio \in CurveRatios,
       knee_db \in CurveKnees :
        curve = CurveRequest(threshold_db, ratio, knee_db)

CURVE_Idle == curve = CurveRequest(0, One, 0)

\* compute_gain_reduction at every sampled level
CURVE_Compute ==
    /\ unit = "curve"
    /\ ~curve.called
    /\ curve' = [curve EXCEPT
           !.called = TRUE,
           !.at = [input_db \in CurveInputs(curve.threshold_db,
                                            curve.knee_db) |->
                       ComputeGainReduction(input_db, curve.threshold_db,
                                            curve.ratio, curve.knee_db)]]
    /\ UNCHANGED <<unit, dl_vars, bq_vars, coef_vars, env_vars, comp_vars, dc, cf>>

-----------------------------------------------------------------------------

vars == <<unit, dl_vars, bq_vars, coef_vars, env_vars, comp_vars, dc, cf>>

Units == {"delay", "biquad", "coef", "envelope", "comp", "dc", "plugin",
          "curve"}

\* every stage constructed; the behaviour then drives the stage unit names
Init ==
    /\ unit \in Units
    /\ IF unit = "delay" THEN DL_Init ELSE DL_InitWith(<<1, 1500>>)
    /\ BQ_Init
    /\ IF unit = "coef" THEN COEF_Init ELSE COEF_Idle
    /\ ENV_Init
    /\ COMP_Init
    /\ DC_Init
    /\ CF_Init
    /\ IF unit = "curve" THEN CURVE_Init ELSE CURVE_Idle

NextDelay ==
    \/ DL_Reset
    \/ DL_SetSampleRate
    \/ DL_Process

NextBiquad ==
    \/ BQ_Reset
    \/ BQ_Update
    \/ BQ_Process

NextCoef ==
    \/ ComputeCoefficients
    \/ PluginUpdate

NextEnvelope ==
    \/ ENV_Reset
    \/ ENV_SetTimes
    \/ ENV_Process

NextCompressor ==
    \/ COMP_Reset
    \/ COMP_SetTimes
    \/ COMP_Process

NextSettle ==
    \/ DC_Update
    \/ DC_Reset
    \/ DC_Process

Next ==
    \/ DL_Reset
    \/ DL_SetSampleRate
    \/ DL_Process
    \/ BQ_Reset
    \/ BQ_Update
    \/ BQ_Process
    \/ ComputeCoefficients
    \/ PluginUpdate
    \/ ENV_Reset
    \/ ENV_SetTimes
    \/ ENV_Process
    \/ COMP_Reset
    \/ COMP_SetTimes
    \/ COMP_Process
    \/ DC_Update
    \/ DC_Reset
    \/ DC_Process
    \/ CF_Initialize
    \/ CF_Reset
    \/ CF_Process
    \/ CURVE_Compute

Spec == Init /\ [][Next]_vars

\* the delay line alone
InitDelay ==
    /\ unit = "delay"
    /\ DL_Init
    /\ BQ_Init
    /\ COEF_Idle
    /\ ENV_Init
    /\ COMP_Init
    /\ DC_Init
    /\ CF_Init
    /\ IF unit = "curve" THEN CURVE_Init ELSE CURVE_Idle

SpecDelay == InitDelay /\ [][NextDelay]_vars

\* the biquad alone
InitBiquad ==
    /\ unit = "biquad"
    /\ DL_InitWith(<<1, 1500>>)
    /\ BQ_Init
    /\ COEF_Idle
    /\ ENV_Init
    /\ COMP_Init
    /\ DC_Init
    /\ CF_Init
    /\ IF unit = "curve" THEN CURVE_Init ELSE CURVE_Idle

SpecBiquad == InitBiquad /\ [][NextBiquad]_vars

\* the coefficient derivation alone
InitCoef ==
    /\ unit = "coef"
    /\ DL_InitWith(<<1, 1500>>)
    /\ BQ_Init
    /\ COEF_Init
    /\ ENV_Init
    /\ COMP_Init
    /\ DC_Init
    /\ CF_Init
    /\ IF unit = "curve" THEN CURVE_Init ELSE CURVE_Idle

SpecCoef == InitCoef /\ [][NextCoef]_vars

\* the envelope follower alone
InitEnvelope ==
    /\ unit = "envelope"
    /\ DL_InitWith(<<1, 1500>>)
    /\ BQ_Init
    /\ COEF_Idle
    /\ ENV_Init
    /\ COMP_Init
    /\ DC_Init
    /\ CF_Init
    /\ IF unit = "curve" THEN CURVE_Init ELSE CURVE_Idle

SpecEnvelope == InitEnvelope /\ [][NextEnvelope]_vars

\* the compressor alone
InitCompressor ==
    /\ unit = "comp"
    /\ DL_InitWith(<<1, 1500>>)
    /\ BQ_Init
    /\ COEF_Idle
    /\ ENV_Init
    /\ COMP_Init
    /\ DC_Init
    /\ CF_Init
    /\ IF unit = "curve" THEN CURVE_Init ELSE CURVE_Idle

SpecCompressor == InitCompressor /\ [][NextCompressor]_vars

\* the biquad at eight decimal places alone
InitSettle ==
    /\ unit = "dc"
    /\ DL_InitWith(<<1, 1500>>)
    /\ BQ_Init
    /\ COEF_Idle
    /\ ENV_Init
    /\ COMP_Init
    /\ DC_Init
    /\ CF_Init
    /\ IF unit = "curve" THEN CURVE_Init ELSE CURVE_Idle

SpecSettle == InitSettle /\ [][NextSettle]_vars

\* the three stages that keep coefficients beside signal state
InitStages ==
    /\ unit \in {"biquad", "envelope", "comp"}
    /\ DL_InitWith(<<1, 1500>>)
    /\ BQ_Init
    /\ COEF_Idle
    /\ ENV_Init
    /\ COMP_Init
    /\ DC_Init
    /\ CF_Init
    /\ IF unit = "curve" THEN CURVE_Init ELSE CURVE_Idle

NextStages ==
    \/ BQ_Reset
    \/ BQ_Update
    \/ BQ_Process
    \/ ENV_Reset
    \/ ENV_SetTimes
    \/ ENV_Process
    \/ COMP_Reset
    \/ COMP_SetTimes
    \/ COMP_Process

SpecStages == InitStages /\ [][NextStages]_vars

\* the filter plugin alone
InitPlugin ==
    /\ unit = "plugin"
    /\ DL_InitWith(<<1, 1500>>)
    /\ BQ_Init
    /\ COEF_Idle
    /\ ENV_Init
    /\ COMP_Init
    /\ DC_Init
    /\ CF_Init
    /\ IF unit = "curve" THEN CURVE_Init ELSE CURVE_Idle

NextPlugin ==
    \/ CF_Initialize
    \/ CF_Reset
    \/ CF_Process

SpecPlugin == InitPlugin /\ [][NextPlugin]_vars

\* the gain computer alone
InitCurve ==
    /\ unit = "curve"
    /\ DL_InitWith(<<1, 1500>>)
    /\ BQ_Init
    /\ COEF_Idle
    /\ ENV_Init
    /\ COMP_Init
    /\ DC_Init
    /\ CF_Init
    /\ CURVE_Init

NextCurve == CURVE_Compute

SpecCurve == InitCurve /\ [][NextCurve]_vars

-----------------------------------------------------------------------------
(* Claims about the delay line *)

N == Len(dl_hist)

\* every call since the origin used the first call's delay_ms and feedback
Uniform ==
    \A n \in 1..N : /\ dl_hist[n].delay_ms = dl_hist[1].delay_ms
                     /\ dl_hist[n].feedback = dl_hist[1].feedback

\* floor(delayMs * sampleRate / 1000), the delay the caller asked for
Requested(ms) == AsUsize(TruncDiv(ms * dl.sample_rate, MsPerSecond))

\* C1: from a new or reset line, with one delayMs <= maxDelayMs of d >= 1 samples
\* and feedback 0 in every call, call n returns the input of call n-d, and 0 for
\* n < d; d is the requested delay, not a shortened one.
C1_ConstantDelay ==
    (/\ unit = "delay" /\ N >= 1 /\ Uniform
     /\ dl_hist[1].feedback = 0
     /\ dl_hist[1].delay_ms <= dl_max_ms
     /\ Requested(dl_hist[1].delay_ms) >= 1)
    => LET d == Requested(dl_hist[1].delay_ms)
       IN  \A n \in 1..N :
               dl_hist[n].out = IF n > d THEN dl_hist[n - d].input ELSE 0

C1_Witness ==
    /\ unit = "delay" /\ Uniform
    /\ dl_hist # <<>>
    /\ dl_hist[1].feedback = 0
    /\ dl_hist[1].delay_ms = dl_max_ms
    /\ Requested(dl_hist[1].delay_ms) = 2
    /\ N = 3
    /\ dl_hist[1].input = 100 /\ dl_hist[3].out = 100 /\ dl_hist[2].out = 0

\* C2: the buffer is never empty, write_pos and the read position of every
\* process call are inside the buffer, and no call underflows or indexes outside.
C2_IndexSafety ==
    unit = "delay" =>
        /\ Len(dl.buffer) >= 1
        /\ dl.write_pos \in 0..(Len(dl.buffer) - 1)
        /\ ~dl_io.panicked
        /\ dl_io.read_pos \in 0..(Len(dl.buffer) - 1)
        /\ dl_io.write_pos \in 0..(Len(dl.buffer) - 1)
        /\ dl_io.delay_samples \in 0..(Len(dl.buffer) - 1)

\* a call whose delay is above the maximum, clamped, and read by wrapping around
C2_Witness ==
    /\ unit = "delay" /\ N >= 1
    /\ dl_hist[N].delay_ms > dl_max_ms
    /\ Requested(dl_hist[N].delay_ms) > Len(dl.buffer) - 1
    /\ dl_io.read_pos > dl_io.write_pos
    /\ \E n \in 1..N : dl_hist[n].delay_ms < 0

\* C3 as stated: in every process call with delayMs >= 0 the position read
\* differs from the position written.
C3_ReadNeverAliasesWrite ==
    (unit = "delay" /\ N >= 1 /\ dl_hist[N].delay_ms >= 0)
    => dl_io.read_pos # dl_io.write_pos

\* f applied k times to x
RECURSIVE FbPow(_, _, _)
FbPow(x, fb, k) == IF k = 0 THEN x ELSE FbMul(FbPow(x, fb, k - 1), fb)

\* one impulse at call 0, zeros after it
Impulse == N >= 1 /\ dl_hist[1].input = 100
           /\ \A n \in 2..N : dl_hist[n].input = 0

\* C4: with a constant delay of d >= 1 samples and constant feedback f, from a
\* reset line, out[n] = in[n-d] + f*out[n-d] (0 before the first call); an
\* impulse comes back as f^(k-1) at call k*d and as 0 at every other call.
C4_FeedbackRecurrence ==
    (/\ unit = "delay" /\ N >= 1 /\ Uniform
     /\ dl_io.delay_samples >= 1)
    => LET d == dl_io.delay_samples
           f == dl_hist[1].feedback
       IN  /\ \A n \in 1..N :
                 dl_hist[n].out =
                     IF n > d
                     THEN dl_hist[n - d].input + FbMul(dl_hist[n - d].out, f)
                     ELSE 0
           /\ Impulse =>
                 \A n \in 1..N :
                     dl_hist[n].out =
                         IF n > 1 /\ (n - 1) % d = 0
                         THEN FbPow(100, f, ((n - 1) \div d) - 1)
                         ELSE 0

\* the impulse's second return, halved by the feedback
C4_Witness ==
    /\ unit = "delay" /\ Uniform /\ Impulse
    /\ N = 3
    /\ dl_io.delay_samples = 1
    /\ dl_hist[1].feedback = 50
    /\ dl_hist[2].out = 100
    /\ dl_hist[3].out = 50

\* C5: after reset, every process call with input 0 returns 0, whatever the
\* delay and the feedback.
C5_ResetZeroesHistory ==
    (/\ unit = "delay" /\ dl_origin.op = "reset"
     /\ \A n \in 1..N : dl_hist[n].input = 0)
    => \A n \in 1..N : dl_hist[n].out = 0

\* a line that held samples was reset and then read with feedback
C5_Witness ==
    /\ unit = "delay" /\ dl_origin.op = "reset" /\ dl_origin.dirty
    /\ N >= 2
    /\ \A n \in 1..N : dl_hist[n].input = 0 /\ dl_hist[n].out = 0
    /\ \E n \in 1..N : dl_hist[n].feedback = 50 /\ dl_hist[n].delay_ms > 0

\* C6: for the delay line, the biquad and the envelope follower, reset after
\* reset leaves what one reset leaves, and after a reset the instance is in the
\* state of, and has returned to every process call the output of, a newly
\* constructed instance given the same parameters and the same calls.
C6_ResetIdempotentAndFresh ==
    /\ unit = "delay" =>
        /\ DL_reset(DL_reset(dl)) = DL_reset(dl)
        /\ dl_origin.op = "reset" =>
            /\ dl = dl_fresh
            /\ \A n \in 1..N : dl_hist[n].out = dl_hist[n].fresh_out
    /\ unit = "biquad" =>
        /\ BQ_reset(BQ_reset(bq)) = BQ_reset(bq)
        /\ bq_origin.op = "reset" =>
            /\ bq = bq_fresh
            /\ \A n \in 1..Len(bq_hist) :
                   /\ bq_hist[n].out = bq_hist[n].fresh_out
                   /\ bq_hist[n].ok = bq_hist[n].fresh_ok
    /\ unit = "envelope" =>
        /\ ENV_reset(ENV_reset(env)) = ENV_reset(env)
        /\ env_origin.op = "reset" =>
            /\ env = env_fresh
            /\ \A n \in 1..Len(env_hist) :
                   env_hist[n].out = env_hist[n].fresh_out

\* a low-pass biquad with samples in its history, reset, then fed two samples
C6_Witness ==
    /\ unit = "biquad" /\ bq_origin.op = "reset" /\ bq_origin.dirty
    /\ bq_up.called /\ bq_up.filter_type = "LowPass"
    /\ Len(bq_hist) = 2
    /\ bq_hist[2].out # 0
    /\ bq.y2 # 0 /\ bq.x2 # 0

\* C7: set_sample_rate(newRate, maxDelayMs) leaves the line as
\* DelayLine::new(maxDelayMs, newRate) does: ceil(maxDelayMs*newRate/1000)+1
\* cells, all 0, write_pos 0, sample rate newRate; later delays use newRate.
C7_SetSampleRateIsNew ==
    (unit = "delay" /\ dl_origin.op = "set_sample_rate")
    => LET len == AsUsize(CeilDiv(dl_origin.max_delay_ms * dl_origin.sample_rate,
                                  MsPerSecond)) + 1
       IN  /\ Len(dl.buffer) = len
           /\ dl.sample_rate = dl_origin.sample_rate
           /\ N = 0 => /\ dl.write_pos = 0
                        /\ \A i \in 1..len : dl.buffer[i] = 0
                        /\ dl = DL_new(dl_origin.max_delay_ms, dl_origin.sample_rate)
           /\ N >= 1 =>
                 /\ dl_io.delay_samples =
                      Min(AsUsize(TruncDiv(dl_hist[N].delay_ms * dl_origin.sample_rate,
                                           MsPerSecond)), len - 1)
                 /\ dl = dl_fresh
                 /\ \A n \in 1..N : dl_hist[n].out = dl_hist[n].fresh_out

\* a line holding samples, resized to another length and rate
C7_Witness ==
    /\ unit = "delay" /\ dl_origin.op = "set_sample_rate" /\ dl_origin.dirty
    /\ N = 0
    /\ dl_calls >= 2
    /\ dl_origin.max_delay_ms = 1
    /\ Len(dl.buffer) = 3

-----------------------------------------------------------------------------
(* Claims about the filter *)

M == Len(bq_hist)

\* C8: each process call returns b0*in + b1*x1 + b2*x2 - a1*y1 - a2*y2, made 0
\* when its magnitude is below 1e-11; after the calls made since the last
\* reset, x1 and x2 are the last two inputs and y1 and y2 the last two
\* returned outputs, 0 for calls not made; no returned output has a magnitude
\* strictly between 0 and 1e-11.
C8_ProcessHistory ==
    unit = "biquad" =>
        /\ bq.x1 = (IF M >= 1 THEN bq_hist[M].input ELSE 0)
        /\ bq.x2 = (IF M >= 2 THEN bq_hist[M - 1].input ELSE 0)
        /\ bq.ok =>
            /\ bq.y1 = (IF M >= 1 THEN bq_hist[M].out ELSE 0)
            /\ bq.y2 = (IF M >= 2 THEN bq_hist[M - 1].out ELSE 0)
        /\ \A n \in 1..M :
               bq_hist[n].ok =>
                   ~(0 < Abs(bq_hist[n].out) /\ Abs(bq_hist[n].out) < FlushThreshold)
        /\ (bq_io.called /\ bq_io.ok) =>
               LET p == bq_io.pre
                   sum == FMul(p.b0, bq_io.input) + FMul(p.b1, p.x1)
                          + FMul(p.b2, p.x2) - FMul(p.a1, p.y1)
                          - FMul(p.a2, p.y2)
               IN  bq_io.out = IF Abs(sum) < FlushThreshold THEN 0 ELSE sum

\* a third call whose sum was below the threshold and came back as 0, with two
\* earlier calls in the history
C8_Witness ==
    /\ unit = "biquad" /\ M = 3
    /\ bq_io.called /\ bq_io.ok
    /\ BQ_sum(bq_io.pre, bq_io.input) # 0
    /\ bq_io.out = 0
    /\ bq.y2 # 0 /\ bq.x2 # 0 /\ bq.y2 # bq.x2

C10_NormalizationWellDefined ==
    (unit = "coef" /\ coef.called)
    => /\ ~coef.panicked
       /\ ~coef.raw.dbz
       /\ coef.raw.a0 # 0
       /\ coef.c.finite

\* C11 as stated: for a sample rate > 0, each entry point (Biquad::update and
\* compute_coefficients, and the plugin's Biquad::update in lib.rs) gives for a
\* frequency f the coefficients it gives for clamp(f, 1, 0.499*sampleRate),
\* with w0 below pi.
C11_FrequencyClamped ==
    (unit = "coef" /\ coef.sample_rate > 0)
    => /\ coef.called =>
            /\ ~coef.panicked
            /\ coef.c = Coefficients(coef.filter_type,
                                     ClampFreq(coef.freq, coef.sample_rate),
                                     coef.q, coef.gain_db, coef.sample_rate)
            /\ W0(ClampFreq(coef.freq, coef.sample_rate), coef.sample_rate) < PI
       /\ plug.called =>
            /\ plug.c = PluginCoefficients(coef.filter_type,
                                          ClampFreq(coef.freq, coef.sample_rate),
                                          coef.q, coef.sample_rate)
            /\ plug.w0 < PI

\* C12 as stated: a coefficient derivation never panics, whatever the numbers;
\* with a zero or negative sample rate it returns NaN / inf coefficients.
C12_DerivationNeverPanics ==
    (unit = "coef" /\ coef.called) => ~coef.panicked

-----------------------------------------------------------------------------

CompCalled == unit = "comp" /\ comp_io.called

\* C13 as stated: for ratio >= 1 and knee_db >= 0 the gain reduction of a
\* process_stereo call is <= 0 dB and the returned gain lies in (0, 1].
C13_GainInHalfOpenUnit ==
    (CompCalled /\ comp_io.ratio >= One /\ comp_io.knee_db >= 0) =>
        /\ comp_io.reduction_db <= 0
        /\ comp_io.gain.m > 0
        /\ GainKey(comp_io.gain) <= GainKey(GainOne)

\* a reduction f32 cannot raise ten to: about -903 dB and below
UnderflowDb == -900 * One

\* C13, amended: for ratio >= 1 and knee_db >= 0 the gain reduction of a
\* process_stereo call is <= 0 dB and the returned gain lies in [0, 1]; it is
\* above 0 whenever the reduction is no deeper than 900 dB.
C13_GainNeverAmplifies ==
    (CompCalled /\ comp_io.ratio >= One /\ comp_io.knee_db >= 0) =>
        /\ comp_io.reduction_db <= 0
        /\ GainKey(comp_io.gain) <= GainKey(GainOne)
        /\ comp_io.reduction_db >= UnderflowDb => comp_io.gain.m > 0

C13_Witness ==
    /\ CompCalled
    /\ comp_io.knee_db > 0
    /\ comp_io.reduction_db < 0
    /\ comp_io.reduction_db >= UnderflowDb
    /\ GainKey(comp_io.gain) < GainKey(GainOne)

\* the coefficients of the compressor's follower lie in [0, 1)
CompCoeffsInUnit ==
    /\ comp.envelope.attack_coeff >= 0 /\ comp.envelope.attack_coeff < One
    /\ comp.envelope.release_coeff >= 0 /\ comp.envelope.release_coeff < One

\* every detection level since the reset, in dB, is at or below
\* threshold_db - knee_db / 2 of the last call (level 0 is below every dB)
CompBelowThreshold ==
    /\ CompCalled
    /\ comp_io.ratio >= One
    /\ comp_io.knee_db >= 0
    /\ CompCoeffsInUnit
    /\ \/ comp_run.max = 0
       \/ Log20(comp_run.max)
              <= comp_io.threshold_db - TruncDiv(comp_io.knee_db, 2)

\* C14 as stated: while every detection level since the reset is at or below
\* threshold_db - knee_db / 2, process_stereo returns gain 1.0.
C14_UnityBelowThreshold == CompBelowThreshold => comp_io.gain = GainOne

\* C14, amended: while every detection level since the reset is at or below
\* threshold_db - knee_db / 2, and that bound is not under the -100 dB floor of
\* the level conversion, process_stereo returns gain 1.0 and the envelope has
\* not passed the largest level seen.
C14_UnityBelowThresholdAboveFloor ==
    (/\ CompBelowThreshold
     /\ comp_io.threshold_db - TruncDiv(comp_io.knee_db, 2) >= DbFloor) =>
        /\ comp_io.gain = GainOne
        /\ comp_io.envelope <= comp_run.max

C14_Witness ==
    /\ CompBelowThreshold
    /\ comp_io.threshold_db - TruncDiv(comp_io.knee_db, 2) >= DbFloor
    /\ comp_run.n >= 2
    /\ comp_io.before > 0
    /\ comp_io.envelope > comp_io.before
    /\ comp_io.gain = GainOne

\* 0.5 as a gain
GainHalf == [m |-> 5 * One, e |-> -1]

\* since the reset every call fed full scale on both channels with threshold
\* -20 dB, ratio 4 and knee 0, under the attack of 0.1 ms at 44.1 kHz
CompFullScaleRun ==
    /\ CompCalled
    /\ comp_run.uniform
    /\ comp_run.steady
    /\ comp_run.first = <<One, One, -20 * One, 4 * One, 0>>
    /\ comp.envelope.attack_coeff = TimeCoeff(1, 4410)

\* C15: from a reset compressor with the attack of 0.1 ms at 44.1 kHz, under
\* constant full-scale input with threshold -20 dB, ratio 4 and knee 0, the
\* returned gain never rises from one call to the next and is below 0.5 from
\* the 1000th call on.
C15_ReductionGrowsUnderFullScale ==
    CompFullScaleRun =>
        /\ comp_io.has_prev =>
               GainKey(comp_io.gain) <= GainKey(comp_io.prev_gain)
        /\ comp_run.n >= 1000 => GainKey(comp_io.gain) < GainKey(GainHalf)

C15_Witness ==
    /\ CompFullScaleRun
    /\ comp_run.n >= 1000
    /\ comp_io.envelope = One
    /\ GainKey(comp_io.gain) < GainKey(GainHalf)

\* C16: a process_stereo call takes the level 20*log10(envelope) when the
\* envelope is above 1e-10 and -100 dB otherwise; inside the knee (knee_db > 0,
\* threshold - knee/2 < level < threshold + knee/2) the reduction is
\* (1/ratio - 1) * x^2 / (2 * knee_db) with x = level - threshold + knee/2; at
\* or above threshold + knee/2 it is (level - threshold)/ratio
\* - (level - threshold); otherwise it is 0; the gain returned is
\* 10^(reduction/20); with knee_db = 0 the curve bends exactly at the threshold.
C16_GainCurve ==
    CompCalled =>
        LET level == comp_io.input_db
            threshold == comp_io.threshold_db
            half == TruncDiv(comp_io.knee_db, 2)
            x == level - threshold + half
            slope == FDiv(One, comp_io.ratio) - One
        IN  /\ comp_io.envelope > 0 => level = Log20(comp_io.envelope)
            /\ comp_io.envelope <= 0 => level = -100 * One
            /\ (/\ comp_io.knee_db > 0
                /\ threshold - half < level
                /\ level < threshold + half) =>
                   comp_io.reduction_db
                       = FDiv(FMul(FMul(slope, x), x), 2 * comp_io.knee_db)
            /\ level >= threshold + half =>
                   comp_io.reduction_db
                       = FDiv(level - threshold, comp_io.ratio)
                             - (level - threshold)
            /\ level <= threshold - half /\ level < threshold + half =>
                   comp_io.reduction_db = 0
            /\ comp_io.knee_db = 0 =>
                   (comp_io.reduction_db = 0 <=>
                        (level <= threshold \/ comp_io.ratio = One))
            /\ comp_io.gain = DbToGain(comp_io.reduction_db)

C16_Witness ==
    /\ CompCalled
    /\ comp_io.knee_db > 0
    /\ comp_io.envelope > 0
    /\ comp_io.input_db
           > comp_io.threshold_db - TruncDiv(comp_io.knee_db, 2)
    /\ comp_io.input_db
           < comp_io.threshold_db + TruncDiv(comp_io.knee_db, 2)
    /\ comp_io.reduction_db < 0
    /\ comp_io.gain.m > 0

\* C17: a process call with e the envelope before it and a = |input| takes the
\* attack coefficient when a > e and the release coefficient otherwise, forms
\* a + c * (e - a), stores 0 instead when the magnitude of that value is under
\* the flush threshold, and returns what it stored.
C17_ProcessStep ==
    unit = "envelope" =>
        \A n \in 1..Len(env_hist) :
            LET h == env_hist[n]
                a == Abs(h.input)
                c == IF a > h.before THEN h.attack_coeff ELSE h.release_coeff
                v == a + FMul(c, h.before - a)
                stored == IF Abs(v) < EnvFlushThreshold THEN 0 ELSE v
            IN  /\ h.out = stored
                /\ n = Len(env_hist) => env.envelope = h.out

\* the five coefficients of a biquad
BqCoefficients(s) == <<s.b0, s.b1, s.b2, s.a1, s.a2, s.finite>>

\* the four history cells of a biquad
BqHistory(s) == <<s.x1, s.x2, s.y1, s.y2, s.ok>>

\* the two coefficients of a follower
EnvCoefficients(s) == <<s.attack_coeff, s.release_coeff>>

\* C18: Biquad.reset zeroes x1, x2, y1, y2 and leaves the five coefficients as
\* they were; Biquad.update leaves the four history cells as they were;
\* EnvelopeFollower.reset and Compressor.reset zero the envelope and leave the
\* attack and release coefficients as they were; set_times leaves the
\* envelope as it was.
C18_StateAndCoefficientsFramedApart ==
    [][/\ BQ_Reset =>
              /\ BqHistory(bq') = <<0, 0, 0, 0, TRUE>>
              /\ BqCoefficients(bq') = BqCoefficients(bq)
       /\ BQ_Update => BqHistory(bq') = BqHistory(bq)
       /\ ENV_Reset =>
              /\ env'.envelope = 0
              /\ EnvCoefficients(env') = EnvCoefficients(env)
       /\ ENV_SetTimes => env'.envelope = env.envelope
       /\ COMP_Reset =>
              /\ comp'.envelope.envelope = 0
              /\ EnvCoefficients(comp'.envelope)
                     = EnvCoefficients(comp.envelope)
       /\ COMP_SetTimes =>
              comp'.envelope.envelope = comp.envelope.envelope]_vars

\* a follower with coefficients set and a raised envelope has been reset
C18_Witness ==
    /\ unit = "envelope"
    /\ env_origin = [op |-> "reset", dirty |-> TRUE]
    /\ env_hist = <<>>
    /\ env.envelope = 0
    /\ env.attack_coeff > 0
    /\ env.release_coeff > 0

\* what a derivation leaves its caller with: whether it panicked, and the
\* coefficients if it did not
Outcome(filter_type, freq, q, gain_db, sample_rate) ==
    LET d == Derivation(filter_type, freq, q, gain_db, sample_rate)
    IN  <<d.panicked, d.c>>

FixedQTypes ==
    {"LinkwitzRileyLP", "LinkwitzRileyHP", "ButterworthLP", "ButterworthHP"}

CharacterTypes ==
    {"Warmth", "Brightness", "Air", "SubBass", "Presence", "Vocal"}

\* C19: a derivation's outcome does not depend on the arguments its filter
\* type overrides: the caller's Q for the Linkwitz-Riley and Butterworth
\* types; the caller's Q, and any gain_db <= 3 (which acts as 3), for the
\* character types; frequency, Q and gain_db for DCBlock; every argument for
\* Unity.
C19_OverriddenArgumentsIgnored ==
    (unit = "coef" /\ coef.called) =>
        LET out == <<coef.panicked, coef.c>>
            ft == coef.filter_type
        IN  /\ ft \in FixedQTypes =>
                   \A q \in Qs :
                       Outcome(ft, coef.freq, q, coef.gain_db,
                               coef.sample_rate) = out
            /\ ft \in CharacterTypes =>
                   \A q \in Qs :
                       /\ Outcome(ft, coef.freq, q, coef.gain_db,
                                  coef.sample_rate) = out
                       /\ coef.gain_db <= 3 =>
                              Outcome(ft, coef.freq, q, 3, coef.sample_rate)
                                  = out
            /\ ft = "DCBlock" =>
                   \A freq \in Freqs, q \in Qs, gain_db \in GainsDb :
                       Outcome(ft, freq, q, gain_db, coef.sample_rate) = out
            /\ ft = "Unity" =>
                   \A freq \in Freqs, q \in Qs, gain_db \in GainsDb,
                      sample_rate \in SampleRates :
                       Outcome(ft, freq, q, gain_db, sample_rate) = out

\* 1e-4
DcTolerance == Wide \div 10000

\* a filter set up as LowPass or HighPass, reset, and fed 1.0 ever since
DcSteadyRun ==
    /\ unit = "dc"
    /\ dc.up.called
    /\ dc.steady

OnePoleTypes == {"LowPass6dB", "HighPass6dB"}

\* C21: for LowPass6dB and HighPass6dB, at every frequency and every sample
\* rate above 0, k = tan(w0)/2 of the clamped frequency has 1 + k > 0, the
\* normalised coefficients are finite with b2 = a2 = 0, and the pole lies
\* strictly inside the unit circle: |a1| < 1.
C21_OnePoleStable ==
    (/\ unit = "coef"
     /\ coef.called
     /\ coef.filter_type \in OnePoleTypes
     /\ coef.sample_rate > 0) =>
        /\ ~coef.panicked
        /\ One + TruncDiv(Tan(W0(ClampFreq(coef.freq, coef.sample_rate),
                                 coef.sample_rate)), 2) > 0
        /\ coef.c.finite
        /\ coef.c.b2 = 0
        /\ coef.c.a2 = 0
        /\ Abs(coef.c.a1) < One

-----------------------------------------------------------------------------
(* Claims about the filter plugin *)

\* the samples of channel c of a block, as <<channel, sample>> positions in
\* time order
ChannelInOrder(c, block) == [i \in 1..Len(block) |-> <<c, i>>]

\* C22: in CantripFilter::process every sample of channel c of a stereo
\* block goes exactly once, in time order, through filters[c] and through no
\* other Biquad, so that all N samples of each channel are filtered
C22_PerChannelFilterState ==
    (unit = "plugin" /\ cf.io.called) =>
        /\ ~cf.io.panicked
        /\ \A c \in 1..2 : cf.io.fed[c] = ChannelInOrder(c, cf.io.block)

-----------------------------------------------------------------------------
(* Claims about the frequency response of the derived coefficients *)

\* the centre frequency compute_coefficients works at, in radians per sample
CentreW0 == W0(ClampFreq(coef.freq, coef.sample_rate), coef.sample_rate)

Cos2(w) == 2 * FMul(Cos(w), Cos(w)) - One

Sin2(w) == 2 * FMul(Sin(w), Cos(w))

\* within 5 % of each other
Near(x, y) == 20 * Abs(x - y) <= Abs(y)

\* |x0 + x1 z^-1 + x2 z^-2|^2 at z = e^jw, at six decimal places
MagnitudeSq(x0, x1, x2, w) ==
    LET re == x0 + FMul(x1, Cos(w)) + FMul(x2, Cos2(w))
        im == FMul(x1, Sin(w)) + FMul(x2, Sin2(w))
    IN  re * re + im * im

\* |H(e^jw)| of the coefficients c is gain: |numerator|^2 is gain^2 times
\* |denominator|^2
HasGain(c, w, gain) ==
    Near(MagnitudeSq(c.b0, c.b1, c.b2, w),
         (MagnitudeSq(One, c.a1, c.a2, w) \div One) * FMul(gain, gain))

\* a band-pass derivation the three-place arithmetic resolves: the call went
\* through, and alpha is not rounded away
BandPassResolved(filter_type) ==
    /\ unit = "coef"
    /\ coef.called
    /\ coef.filter_type = filter_type
    /\ coef.sample_rate > 0
    /\ ~coef.panicked
    /\ coef.c.finite
    /\ coef.c.b0 # 0

\* C23: BandPass0dB has magnitude 1 at its centre frequency, and BandPass has
\* magnitude Q there
C23_BandPassPeakGains ==
    /\ BandPassResolved("BandPass0dB") => HasGain(coef.c, CentreW0, One)
    /\ BandPassResolved("BandPass") =>
           HasGain(coef.c, CentreW0, coef.q)

\* what the coefficients give instead: BandPass0dB peaks at Q, BandPass at 1
BandPassPeakGainsAsDerived ==
    /\ BandPassResolved("BandPass") => HasGain(coef.c, CentreW0, One)
    /\ BandPassResolved("BandPass0dB") =>
           HasGain(coef.c, CentreW0, coef.q)

\* num / den is above 1, below 1
RatioAbove(num, den) == (den > 0 /\ num > den) \/ (den < 0 /\ num < den)

RatioBelow(num, den) == (den > 0 /\ num < den) \/ (den < 0 /\ num > den)

\* a Tilt derivation that went through
TiltDerived ==
    /\ unit = "coef"
    /\ coef.called
    /\ coef.filter_type = "Tilt"
    /\ coef.sample_rate > 0
    /\ ~coef.panicked
    /\ coef.c.finite

\* C24: the Tilt coefficients of a positive gainDb have gain above 1 at
\* z = -1 and below 1 at z = 1, and those of a negative gainDb the reverse
C24_TiltTilts ==
    TiltDerived =>
        LET c == coef.c
        IN  /\ coef.gain_db > 0 =>
                /\ RatioAbove(c.b0 - c.b1 + c.b2, One - c.a1 + c.a2)
                /\ RatioBelow(c.b0 + c.b1 + c.b2, One + c.a1 + c.a2)
            /\ coef.gain_db < 0 =>
                /\ RatioBelow(c.b0 - c.b1 + c.b2, One - c.a1 + c.a2)
                /\ RatioAbove(c.b0 + c.b1 + c.b2, One + c.a1 + c.a2)

LowPassFamily == {"LowPass", "LinkwitzRileyLP", "ButterworthLP", "LowPass6dB"}

HighPassFamily ==
    {"HighPass", "LinkwitzRileyHP", "ButterworthHP", "HighPass6dB", "DCBlock"}

\* the rounding of six three-place coefficients
SumTolerance == One \div 100

\* a derivation that went through
Derived ==
    /\ unit = "coef"
    /\ coef.called
    /\ coef.sample_rate > 0
    /\ ~coef.panicked

\* C25: at z = 1 the low-pass family has b0 + b1 + b2 = 1 + a1 + a2 and the
\* high-pass family has b0 + b1 + b2 = 0
C25_DcGain ==
    Derived =>
        LET c == coef.c
        IN  /\ coef.filter_type \in LowPassFamily \cup HighPassFamily =>
                c.finite
            /\ coef.filter_type \in LowPassFamily =>
                Abs((c.b0 + c.b1 + c.b2) - (One + c.a1 + c.a2))
                    <= SumTolerance
            /\ coef.filter_type \in HighPassFamily =>
                Abs(c.b0 + c.b1 + c.b2) <= SumTolerance

\* a Butterworth low-pass that passes DC, and is not silent there
C25_Witness ==
    /\ Derived
    /\ coef.filter_type = "ButterworthLP"
    /\ coef.c.b0 + coef.c.b1 + coef.c.b2 > SumTolerance

\* the types whose denominator is of second order
SecondOrderTypes == FilterTypes \ {"LowPass6dB", "HighPass6dB", "Unity"}

\* C26: every second-order type has its poles inside the unit circle:
\* |a2| < 1 and |a1| < 1 + a2
C26_SecondOrderStable ==
    (Derived /\ coef.filter_type \in SecondOrderTypes) =>
        /\ coef.c.finite
        /\ Abs(coef.c.a2) < One
        /\ Abs(coef.c.a1) < One + coef.c.a2

\* C27: Biquad::update of dsp/biquad.rs stores the coefficients
\* compute_coefficients of parameters.rs returns, for every type and every
\* argument with a positive sample rate; and for LowPass, HighPass and
\* BandPass the plugin's own Biquad::update gives the same as both
C27_DerivationsAgree ==
    (unit = "coef" /\ coef.called /\ coef.sample_rate > 0) =>
        /\ coef.pr.panicked = coef.panicked
        /\ coef.pr.c = coef.c
        /\ plug.called => (~coef.panicked /\ plug.c = coef.c)

\* the part of it between biquad.rs and parameters.rs
DspDerivationsAgree ==
    (unit = "coef" /\ coef.called) =>
        (coef.pr.panicked = coef.panicked /\ coef.pr.c = coef.c)

-----------------------------------------------------------------------------
(* Claims about the gain computer's curve *)

\* a curve computed for a ratio of 1 or more and a soft knee
SoftKneeCurve ==
    /\ unit = "curve"
    /\ curve.called
    /\ curve.ratio >= One
    /\ curve.knee_db > 0

\* C28: for ratio >= 1 and knee_db > 0 the reduction has no jump at either
\* end of the knee (a thousandth of a decibel inside the lower end it is
\* within three thousandths of 0, and a thousandth inside the upper end
\* within three thousandths of the above-knee value at the end), and it is
\* non-increasing in the level over the whole range
C28_CurveContinuousMonotone ==
    SoftKneeCurve =>
        LET lower == curve.threshold_db - TruncDiv(curve.knee_db, 2)
            upper == curve.threshold_db + TruncDiv(curve.knee_db, 2)
        IN  /\ curve.at[lower] = 0
            /\ Abs(curve.at[lower + 1]) <= 3
            /\ Abs(curve.at[upper - 1] - curve.at[upper]) <= 3
            /\ \A d1, d2 \in DOMAIN curve.at :
                   d1 <= d2 => curve.at[d2] <= curve.at[d1]

\* 4:1 with a 6 dB knee: 2.25 dB are taken off at the upper end of the knee,
\* and less than that inside it
C28_Witness ==
    /\ SoftKneeCurve
    /\ curve.ratio = 4000
    /\ curve.knee_db = 6000
    /\ curve.at[curve.threshold_db + 3000] = -2250
    /\ curve.at[curve.threshold_db] < 0
    /\ curve.at[curve.threshold_db] > -2250

-----------------------------------------------------------------------------
(* Claims about the envelope's bounds *)

InUnit(c) == 0 <= c /\ c <= One

\* the process call h was made with both coefficients in [0, 1]
UnitCoefficients(h) == InUnit(h.attack_coeff) /\ InUnit(h.release_coeff)

\* the largest |input| among the process calls since the last reset
RECURSIVE LargestInput(_)
LargestInput(hist) ==
    IF hist = <<>> THEN 0
    ELSE Max(Abs(Head(hist).input), LargestInput(Tail(hist)))

\* C29 as stated: with coefficients in [0, 1], after every process call the
\* envelope is >= 0 and lies between the previous envelope and |input|
\* inclusive; hence the envelope is at most the largest |input| since the
\* last reset
C29_EnvelopeBetween ==
    unit = "envelope" =>
        /\ \A n \in 1..Len(env_hist) :
               LET h == env_hist[n]
                   a == Abs(h.input)
               IN  UnitCoefficients(h) =>
                       /\ h.out >= 0
                       /\ Min(h.before, a) <= h.out
                       /\ h.out <= Max(h.before, a)
        /\ (\A n \in 1..Len(env_hist) : UnitCoefficients(env_hist[n])) =>
               env.envelope <= LargestInput(env_hist)

\* C29, amended: with coefficients in [0, 1], after every process call the
\* envelope is >= 0 and at most the larger of the previous envelope and
\* |input|; it is at least the smaller of the two unless the smoothed value
\* is under the anti-denormal threshold, and then it is 0; hence the envelope
\* is at most the largest |input| since the last reset
C29_EnvelopeBetweenOrFlushed ==
    unit = "envelope" =>
        /\ \A n \in 1..Len(env_hist) :
               LET h == env_hist[n]
                   a == Abs(h.input)
                   c == IF a > h.before THEN h.attack_coeff
                        ELSE h.release_coeff
                   smoothed == a + FMul(c, h.before - a)
               IN  UnitCoefficients(h) =>
                       /\ h.out >= 0
                       /\ h.out <= Max(h.before, a)
                       /\ smoothed >= EnvFlushThreshold =>
                              Min(h.before, a) <= h.out
                       /\ smoothed < EnvFlushThreshold => h.out = 0
        /\ (\A n \in 1..Len(env_hist) : UnitCoefficients(env_hist[n])) =>
               env.envelope <= LargestInput(env_hist)

\* a follower at 2.0 is fed an input under the threshold, with release
\* coefficient 0: the envelope drops to 0, below the input; and a call with
\* coefficients strictly inside (0, 1) lands strictly between the two
C29_Witness ==
    /\ unit = "envelope"
    /\ Len(env_hist) = 3
    /\ \A n \in 1..3 : UnitCoefficients(env_hist[n])
    /\ env_hist[2].before = 2000
    /\ env_hist[2].input = 5
    /\ env_hist[2].release_coeff = 0
    /\ env_hist[2].out = 0
    /\ env_hist[3].attack_coeff > 0
    /\ env_hist[3].out > env_hist[3].before
    /\ env_hist[3].out < Abs(env_hist[3].input)

-----------------------------------------------------------------------------
(* Claims about the gain-bearing types at 0 dB *)

GainTypes == {"Peaking", "LowShelf", "HighShelf", "Tilt"}

\* C30: Peaking, LowShelf, HighShelf and Tilt with gain_db = 0 derive
\* b0 = 1 (to within the rounding of the normalization), b1 = a1 and
\* b2 = a2
C30_TransparentAtZeroDb ==
    (Derived /\ coef.filter_type \in GainTypes /\ coef.gain_db = 0) =>
        /\ coef.c.finite
        /\ Abs(coef.c.b0 - One) <= SumTolerance
        /\ coef.c.b1 = coef.c.a1
        /\ coef.c.b2 = coef.c.a2

\* a low shelf at 4 kHz with 0 dB: the denominator is no trivial one
C30_Witness ==
    /\ Derived
    /\ coef.filter_type = "LowShelf"
    /\ coef.gain_db = 0
    /\ coef.freq = 4000
    /\ coef.c.a1 # 0
    /\ coef.c.a2 # 0
    /\ coef.c.b1 = coef.c.a1
====
